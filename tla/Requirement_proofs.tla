------------------------ MODULE Requirement_proofs ------------------------
(***************************************************************************)
(* Theorems about Requirement, for all operands and operators that         *)
(* RequirementAssumption admits and conditions of any length: what the     *)
(* Tokenizer makes of a condition, why one is rejected, where it is split  *)
(* and what the report lists.                                              *)
(***************************************************************************)
EXTENDS Requirement, SequenceTheorems, FiniteSetTheorems, Induction, TLAPS

----------------------------------------------------------------------------
(* Texts: what the Tokenizer reads of a text that begins with x depends    *)
(* on x alone, when what follows stops the scan.                           *)

\* A set of numbers has a least one, which Min chooses.
LEMMA MinOf ==
  ASSUME NEW S \in SUBSET Nat, S # {}
  PROVE  Min(S) \in S /\ \A i \in S : Min(S) <= i
<1>1. \E i \in S : \A j \in S : i <= j
  BY SmallestExists
<1> QED
  BY <1>1 DEF Min

\* Min is the only least element.
LEMMA MinIs ==
  ASSUME NEW S \in SUBSET Nat, NEW m \in S, \A i \in S : m <= i
  PROVE  Min(S) = m
<1>1. Min(S) \in S /\ Min(S) <= m /\ m <= Min(S)
  BY MinOf
<1>2. Min(S) \in Nat /\ m \in Nat
  BY <1>1
<1> QED
  BY <1>1, <1>2

\* The rest of a text.
LEMMA PastProps ==
  ASSUME NEW s \in Seq(Character), NEW n \in 0..Len(s)
  PROVE  /\ Past(s, n) \in Seq(Character) /\ Len(Past(s, n)) = Len(s) - n
         /\ \A k \in 1..Len(s) - n : Past(s, n)[k] = s[n + k]
         /\ \A m \in Nat : \A C : HasAt(Past(s, n), m, C) <=> HasAt(s, n + m, C)
<1>1. /\ Past(s, n) \in Seq(Character) /\ Len(Past(s, n)) = Len(s) - n
      /\ \A k \in 1..Len(s) - n : Past(s, n)[k] = s[n + k]
  BY DEF Past
<1>2. ASSUME NEW m \in Nat, NEW C PROVE HasAt(Past(s, n), m, C) <=> HasAt(s, n + m, C)
  <2>1. CASE m < Len(s) - n
    <3>1. m + 1 \in 1..Len(s) - n /\ n + (m + 1) = (n + m) + 1
      BY <2>1
    <3>2. Past(s, n)[m + 1] = s[(n + m) + 1]
      BY <1>1, <3>1
    <3> QED
      BY <1>1, <2>1, <3>2 DEF HasAt
  <2>2. CASE ~(m < Len(s) - n)
    BY <1>1, <2>2 DEF HasAt
  <2> QED
    BY <2>1, <2>2
<1> QED
  BY <1>1, <1>2

\* Nothing consumed leaves the text.
LEMMA PastZero ==
  ASSUME NEW s \in Seq(Character)
  PROVE  Past(s, 0) = s
BY DEF Past

\* Span stops at the first character outside of C.
LEMMA SpanProps ==
  ASSUME NEW s \in Seq(Character), NEW C
  PROVE  /\ Span(s, C) \in 0..Len(s)
         /\ \A k \in 1..Span(s, C) : s[k] \in C
         /\ ~HasAt(s, Span(s, C), C)
<1> DEFINE I == {i \in 1..Len(s) : s[i] \notin C}
<1>0. Len(s) \in Nat
  OBVIOUS
<1>1. Span(s, C) = LET stop == IF I # {} THEN Min(I) ELSE 0
                   IN  IF stop = 0 THEN Len(s) ELSE stop - 1
  BY DEF Span, SelectInSeq
<1>2. CASE I = {}
  <2>1. Span(s, C) = Len(s)
    BY <1>1, <1>2
  <2>2. \A k \in 1..Len(s) : s[k] \in C
    BY <1>2
  <2>3. ~HasAt(s, Len(s), C)
    BY <1>0 DEF HasAt
  <2> QED
    BY <1>0, <2>1, <2>2, <2>3
<1>3. CASE I # {}
  <2>0. I \in SUBSET Nat
    OBVIOUS
  <2>1. Min(I) \in I /\ \A i \in I : Min(I) <= i
    <3> HIDE DEF I
    <3> QED
      BY <1>3, <2>0, MinOf
  <2>2. Span(s, C) = Min(I) - 1
    BY <1>1, <1>3, <2>1
  <2>3. Min(I) \in 1..Len(s) /\ s[Min(I)] \notin C
    BY <2>1
  <2>4. \A k \in 1..Span(s, C) : s[k] \in C
    <3> SUFFICES ASSUME NEW k \in 1..Span(s, C), s[k] \notin C PROVE FALSE
      OBVIOUS
    <3>1. k \in I
      BY <2>2, <2>3
    <3> QED
      BY <2>1, <2>2, <2>3, <3>1
  <2>5. (Min(I) - 1) + 1 = Min(I)
    BY <2>3
  <2> QED
    BY <1>0, <2>2, <2>3, <2>4, <2>5 DEF HasAt
<1> QED
  BY <1>2, <1>3

\* These facts determine it.
LEMMA SpanIs ==
  ASSUME NEW s \in Seq(Character), NEW C, NEW n \in 0..Len(s),
         \A k \in 1..n : s[k] \in C, ~HasAt(s, n, C)
  PROVE  Span(s, C) = n
<1>1. /\ Span(s, C) \in 0..Len(s)
      /\ \A k \in 1..Span(s, C) : s[k] \in C
      /\ ~HasAt(s, Span(s, C), C)
  BY SpanProps
<1>2. CASE Span(s, C) < n
  <2>1. Span(s, C) + 1 \in 1..n
    BY <1>1, <1>2
  <2>2. s[Span(s, C) + 1] \in C /\ Span(s, C) < Len(s)
    BY <1>2, <1>1, <2>1
  <2> QED
    BY <1>1, <2>2 DEF HasAt
<1>3. CASE n < Span(s, C)
  <2>1. n + 1 \in 1..Span(s, C) /\ n < Len(s)
    BY <1>1, <1>3
  <2>2. s[n + 1] \in C
    BY <1>1, <2>1
  <2> QED
    BY <2>1, <2>2 DEF HasAt
<1> QED
  BY <1>1, <1>2, <1>3

\* The text s begins with x.
Begins(s, x) ==
  /\ s \in Seq(Character) /\ x \in Seq(Character) /\ Len(x) <= Len(s)
  /\ \A k \in 1..Len(x) : s[k] = x[k]

\* What stands at a place of x, or just behind x where s has nothing of C, is the same in s.
LEMMA HasAtLocal ==
  ASSUME NEW s, NEW x, Begins(s, x), NEW n \in 0..Len(x), NEW C,
         ~HasAt(s, Len(x), C)
  PROVE  HasAt(s, n, C) <=> HasAt(x, n, C)
<1>1. CASE n = Len(x)
  BY <1>1 DEF HasAt, Begins
<1>2. CASE n < Len(x)
  <2>1. n + 1 \in 1..Len(x) /\ n < Len(s) /\ s[n + 1] = x[n + 1]
    BY <1>2 DEF Begins
  <2> QED
    BY <1>2, <2>1 DEF HasAt
<1> QED
  BY <1>1, <1>2 DEF Begins

\* Inside x a text that begins with x has the characters of x.
LEMMA HasAtInside ==
  ASSUME NEW s, NEW x, Begins(s, x), NEW n \in Nat, n < Len(x), NEW C
  PROVE  HasAt(s, n, C) <=> HasAt(x, n, C)
<1>1. n + 1 \in 1..Len(x) /\ n < Len(s) /\ s[n + 1] = x[n + 1]
  BY DEF Begins
<1> QED
  BY <1>1 DEF HasAt

\* What is not in a set is in none of its subsets.
LEMMA HasAtSmaller ==
  ASSUME NEW s, NEW n, NEW C, NEW D, C \subseteq D, ~HasAt(s, n, D)
  PROVE  ~HasAt(s, n, C)
BY DEF HasAt

\* A scan that what follows x stops ends in s where it ends in x.
LEMMA SpanLocal ==
  ASSUME NEW s, NEW x, Begins(s, x), NEW n \in 0..Len(x), NEW C,
         ~HasAt(s, Len(x), C)
  PROVE  /\ Span(Past(s, n), C) = Span(Past(x, n), C)
         /\ Span(Past(x, n), C) \in 0..Len(x) - n
<1>0. s \in Seq(Character) /\ x \in Seq(Character) /\ Len(x) \in Nat /\ Len(s) \in Nat /\ Len(x) <= Len(s)
      /\ n \in 0..Len(s)
  BY DEF Begins
<1> DEFINE p == Past(s, n)
           q == Past(x, n)
           m == Span(q, C)
<1>1. /\ p \in Seq(Character) /\ Len(p) = Len(s) - n
      /\ \A k \in 1..Len(s) - n : p[k] = s[n + k]
      /\ \A i \in Nat : \A D : HasAt(p, i, D) <=> HasAt(s, n + i, D)
  BY <1>0, PastProps
<1>2. /\ q \in Seq(Character) /\ Len(q) = Len(x) - n
      /\ \A k \in 1..Len(x) - n : q[k] = x[n + k]
      /\ \A i \in Nat : \A D : HasAt(q, i, D) <=> HasAt(x, n + i, D)
  BY <1>0, PastProps
<1>3. m \in 0..Len(x) - n /\ (\A k \in 1..m : q[k] \in C) /\ ~HasAt(q, m, C)
  BY <1>2, SpanProps
<1>4. m \in 0..Len(p) /\ m \in Nat /\ n + m \in 0..Len(x)
  BY <1>0, <1>1, <1>3
<1>5. \A k \in 1..m : p[k] \in C
  <2> SUFFICES ASSUME NEW k \in 1..m PROVE p[k] \in C
    OBVIOUS
  <2>1. k \in 1..Len(x) - n /\ k \in 1..Len(s) - n /\ n + k \in 1..Len(x)
    BY <1>0, <1>3
  <2>2. p[k] = s[n + k] /\ q[k] = x[n + k] /\ s[n + k] = x[n + k]
    BY <1>1, <1>2, <2>1 DEF Begins
  <2> QED
    BY <1>3, <2>2
<1>6. ~HasAt(p, m, C)
  <2>1. ~HasAt(x, n + m, C)
    BY <1>2, <1>3, <1>4
  <2>2. ~HasAt(s, n + m, C)
    BY <1>4, <2>1, HasAtLocal
  <2> QED
    BY <1>1, <1>4, <2>2
<1>7. Span(p, C) = m
  <2> HIDE DEF p, m
  <2> QED
    BY <1>1, <1>4, <1>5, <1>6, SpanIs
<1> QED
  BY <1>3, <1>7

----------------------------------------------------------------------------
(* Numbers.                                                                *)

\* What a number may read on.
Continuing == Word \cup {"'", "."}

\* The sets of characters the matchers and parsers of numbers ask for.
NumberSets ==
  {Digits, HexDigits, DigitOrSep, XDigitOrSep, Word, {"0"}, {"x", "X"}, {"b", "B"}, {"."},
   {"e", "E"}, {"p", "P"}, {"p", "P", "."}, {"x", "X", "e", "E", "."},
   {"u", "U"}, {"l", "L"}, {"f", "F", "l", "L"}}

\* All of them are read on with.
LEMMA NumberSetsContinue ==
  \A C \in NumberSets : C \subseteq Continuing
<1>1. HexDigits \subseteq Word /\ Digits \subseteq Word
  BY DEF HexDigits, Digits, Word, Letters
<1>2. {"0"} \subseteq Word /\ {"x", "X"} \subseteq Word /\ {"b", "B"} \subseteq Word
  BY DEF Word, Digits, Letters
<1>3. {"e", "E"} \subseteq Word /\ {"p", "P"} \subseteq Word /\ {"u", "U"} \subseteq Word
  BY DEF Word, Digits, Letters
<1>4. {"l", "L"} \subseteq Word /\ {"f", "F", "l", "L"} \subseteq Word
  BY DEF Word, Digits, Letters
<1>5. {"p", "P", "."} \subseteq Continuing /\ {"x", "X", "e", "E", "."} \subseteq Continuing
  BY <1>2, <1>3 DEF Continuing
<1>6. DigitOrSep \subseteq Continuing /\ XDigitOrSep \subseteq Continuing
  BY <1>1 DEF DigitOrSep, XDigitOrSep, Continuing
<1>7. Word \subseteq Continuing /\ {"."} \subseteq Continuing
  BY DEF Continuing
<1> QED
  BY <1>1, <1>2, <1>3, <1>4, <1>5, <1>6, <1>7 DEF NumberSets

\* No set tells s from x where a number is asked for a character.
LEMMA NumberAt ==
  ASSUME NEW s, NEW x, Begins(s, x), ~HasAt(s, Len(x), Continuing)
  PROVE  \A n \in 0..Len(x), C \in NumberSets : HasAt(s, n, C) <=> HasAt(x, n, C)
<1> SUFFICES ASSUME NEW n \in 0..Len(x), NEW C \in NumberSets
             PROVE  HasAt(s, n, C) <=> HasAt(x, n, C)
  OBVIOUS
<1>1. C \subseteq Continuing
  BY NumberSetsContinue
<1>2. ~HasAt(s, Len(x), C)
  BY <1>1, HasAtSmaller
<1> QED
  BY <1>2, HasAtLocal

\* No scan of a number tells s from x.
LEMMA NumberSpan ==
  ASSUME NEW s, NEW x, Begins(s, x), ~HasAt(s, Len(x), Continuing)
  PROVE  \A n \in 0..Len(x), C \in NumberSets :
            /\ Span(Past(s, n), C) = Span(Past(x, n), C)
            /\ Span(Past(x, n), C) \in 0..Len(x) - n
<1> SUFFICES ASSUME NEW n \in 0..Len(x), NEW C \in NumberSets
             PROVE  /\ Span(Past(s, n), C) = Span(Past(x, n), C)
                    /\ Span(Past(x, n), C) \in 0..Len(x) - n
  OBVIOUS
<1>1. C \subseteq Continuing
  BY NumberSetsContinue
<1>2. ~HasAt(s, Len(x), C)
  BY <1>1, HasAtSmaller
<1> QED
  BY <1>2, SpanLocal

\* The same at the second and third characters, which x need not have.
LEMMA NumberHead ==
  ASSUME NEW s, NEW x, Begins(s, x), x # <<>>, ~HasAt(s, Len(x), Continuing)
  PROVE  /\ \A C \in NumberSets :
               /\ HasAt(s, 0, C) <=> HasAt(x, 0, C)
               /\ HasAt(s, 1, C) <=> HasAt(x, 1, C)
               /\ Span(s, C) = Span(x, C) /\ Span(x, C) \in 0..Len(x)
         /\ \A C, D \in NumberSets : (HasAt(s, 1, C) /\ HasAt(s, 2, D))
                                        <=> (HasAt(x, 1, C) /\ HasAt(x, 2, D))
<1>0. Len(x) \in Nat /\ Len(x) >= 1 /\ s \in Seq(Character) /\ x \in Seq(Character)
  BY DEF Begins
<1>1. \A C \in NumberSets : /\ HasAt(s, 0, C) <=> HasAt(x, 0, C)
                            /\ HasAt(s, 1, C) <=> HasAt(x, 1, C)
  BY <1>0, NumberAt
<1>2. \A C \in NumberSets : Span(s, C) = Span(x, C) /\ Span(x, C) \in 0..Len(x)
  <2>1. Past(s, 0) = s /\ Past(x, 0) = x /\ 0 \in 0..Len(x) /\ Len(x) - 0 = Len(x)
    BY <1>0, PastZero
  <2> QED
    BY <2>1, NumberSpan
<1>3. ASSUME NEW C \in NumberSets, NEW D \in NumberSets
      PROVE  (HasAt(s, 1, C) /\ HasAt(s, 2, D)) <=> (HasAt(x, 1, C) /\ HasAt(x, 2, D))
  <2>1. CASE Len(x) < 2
    <3>1. ~HasAt(x, 1, C)
      BY <1>0, <2>1 DEF HasAt
    <3> QED
      BY <1>1, <3>1
  <2>2. CASE Len(x) >= 2
    <3>1. 2 \in 0..Len(x)
      BY <1>0, <2>2
    <3> QED
      BY <1>1, <3>1, NumberAt
  <2> QED
    BY <1>0, <2>1, <2>2
<1> QED
  BY <1>1, <1>2, <1>3

\* The sets by name.
LEMMA NumberNames ==
  /\ Digits \in NumberSets /\ HexDigits \in NumberSets /\ DigitOrSep \in NumberSets
  /\ XDigitOrSep \in NumberSets /\ Word \in NumberSets
  /\ {"0"} \in NumberSets /\ {"x", "X"} \in NumberSets /\ {"b", "B"} \in NumberSets
  /\ {"."} \in NumberSets /\ {"e", "E"} \in NumberSets /\ {"p", "P"} \in NumberSets
  /\ {"p", "P", "."} \in NumberSets /\ {"x", "X", "e", "E", "."} \in NumberSets
  /\ {"u", "U"} \in NumberSets /\ {"l", "L"} \in NumberSets /\ {"f", "F", "l", "L"} \in NumberSets
BY DEF NumberSets

\* The prefix of a hexadecimal number is the one of x.
LEMMA HexPrefixLocal ==
  ASSUME NEW s, NEW x, Begins(s, x), x # <<>>, ~HasAt(s, Len(x), Continuing)
  PROVE  /\ HexPrefix(s) <=> HexPrefix(x)
         /\ DotHexPrefix(s) <=> DotHexPrefix(x)
<1>0. Len(x) \in Nat /\ Len(x) >= 1 /\ s \in Seq(Character) /\ x \in Seq(Character) /\ Len(s) >= 1
      /\ Len(s) \in Nat
  BY DEF Begins
<1>1. HexPrefix(s) <=> HexPrefix(x)
  BY NumberHead, NumberNames DEF HexPrefix
<1>2. \A y : y \in Seq(Character) /\ Len(y) >= 1 =>
        (HexPrefix(Past(y, 1)) <=> HasAt(y, 1, {"0"}) /\ HasAt(y, 2, {"x", "X"}))
  <2> SUFFICES ASSUME NEW y \in Seq(Character), Len(y) >= 1
               PROVE  HexPrefix(Past(y, 1)) <=> HasAt(y, 1, {"0"}) /\ HasAt(y, 2, {"x", "X"})
    OBVIOUS
  <2>1. 1 \in 0..Len(y) /\ 0 \in Nat /\ 1 \in Nat /\ 1 + 0 = 1 /\ 1 + 1 = 2
    OBVIOUS
  <2>2. \A m \in Nat : \A C : HasAt(Past(y, 1), m, C) <=> HasAt(y, 1 + m, C)
    BY <2>1, PastProps
  <2>3. /\ HasAt(Past(y, 1), 0, {"0"}) <=> HasAt(y, 1 + 0, {"0"})
        /\ HasAt(Past(y, 1), 1, {"x", "X"}) <=> HasAt(y, 1 + 1, {"x", "X"})
    BY <2>1, <2>2
  <2> QED
    BY <2>1, <2>3 DEF HexPrefix
<1>3. HexPrefix(Past(s, 1)) <=> HexPrefix(Past(x, 1))
  <2>1. (HasAt(s, 1, {"0"}) /\ HasAt(s, 2, {"x", "X"})) <=> (HasAt(x, 1, {"0"}) /\ HasAt(x, 2, {"x", "X"}))
    BY NumberHead, NumberNames
  <2> QED
    BY <1>0, <1>2, <2>1
<1>4. HasAt(s, 0, {"."}) <=> HasAt(x, 0, {"."})
  BY NumberHead, NumberNames
<1> QED
  BY <1>1, <1>3, <1>4 DEF DotHexPrefix

\* The integer at the start of s is the one of x.
LEMMA IntegerLocal ==
  ASSUME NEW s, NEW x, Begins(s, x), x # <<>>, ~HasAt(s, Len(x), Continuing)
  PROVE  /\ MatchesIntBinLiteral(s) <=> MatchesIntBinLiteral(x)
         /\ MatchesIntHexLiteral(s) <=> MatchesIntHexLiteral(x)
         /\ EndsInteger(s) <=> EndsInteger(x)
<1>0. Len(x) \in Nat /\ Len(x) >= 1 /\ s \in Seq(Character) /\ x \in Seq(Character)
  BY DEF Begins
<1>1. MatchesIntBinLiteral(s) <=> MatchesIntBinLiteral(x)
  <2>1. HasAt(s, 0, {"0"}) <=> HasAt(x, 0, {"0"})
    BY NumberHead, NumberNames
  <2>2. (HasAt(s, 1, {"b", "B"}) /\ HasAt(s, 2, Digits)) <=> (HasAt(x, 1, {"b", "B"}) /\ HasAt(x, 2, Digits))
    BY NumberHead, NumberNames
  <2> QED
    BY <2>1, <2>2 DEF MatchesIntBinLiteral
<1>2. MatchesIntHexLiteral(s) <=> MatchesIntHexLiteral(x)
  <2>1. HexPrefix(s) <=> HexPrefix(x)
    BY HexPrefixLocal
  <2>2. CASE HexPrefix(x)
    <3>1. Len(x) >= 2
      BY <1>0, <2>2 DEF HexPrefix, HasAt
    <3>2. 2 \in 0..Len(x)
      BY <1>0, <3>1
    <3>3. HasAt(s, 2, HexDigits) <=> HasAt(x, 2, HexDigits)
      BY <3>2, NumberAt, NumberNames
    <3>4. /\ Span(Past(s, 2), XDigitOrSep) = Span(Past(x, 2), XDigitOrSep)
          /\ Span(Past(x, 2), XDigitOrSep) \in 0..Len(x) - 2
      BY <3>2, NumberSpan, NumberNames
    <3>5. 2 + Span(Past(x, 2), XDigitOrSep) \in 0..Len(x)
      BY <1>0, <3>1, <3>4
    <3>6. HasAt(s, 2 + Span(Past(x, 2), XDigitOrSep), {"p", "P", "."})
            <=> HasAt(x, 2 + Span(Past(x, 2), XDigitOrSep), {"p", "P", "."})
      BY <3>5, NumberAt, NumberNames
    <3> QED
      BY <2>1, <3>3, <3>4, <3>6 DEF MatchesIntHexLiteral
  <2> QED
    BY <2>1, <2>2 DEF MatchesIntHexLiteral
<1>3. EndsInteger(s) <=> EndsInteger(x)
  <2>1. Span(s, DigitOrSep) = Span(x, DigitOrSep) /\ Span(x, DigitOrSep) \in 0..Len(x)
    BY NumberHead, NumberNames
  <2>2. HasAt(s, Span(x, DigitOrSep), {"x", "X", "e", "E", "."})
          <=> HasAt(x, Span(x, DigitOrSep), {"x", "X", "e", "E", "."})
    BY <2>1, NumberAt, NumberNames
  <2> QED
    BY <2>1, <2>2 DEF EndsInteger
<1> QED
  BY <1>1, <1>2, <1>3

\* The matchers of numbers say of s what they say of x.
LEMMA NumberMatchesLocal ==
  ASSUME NEW s, NEW x, Begins(s, x), x # <<>>, ~HasAt(s, Len(x), Continuing)
  PROVE  /\ MatchesIntBinLiteral(s) <=> MatchesIntBinLiteral(x)
         /\ MatchesIntOctLiteral(s) <=> MatchesIntOctLiteral(x)
         /\ MatchesIntDecLiteral(s) <=> MatchesIntDecLiteral(x)
         /\ MatchesIntHexLiteral(s) <=> MatchesIntHexLiteral(x)
         /\ MatchesFloatLiteral(s) <=> MatchesFloatLiteral(x)
         /\ MatchesFloatHexLiteral(s) <=> MatchesFloatHexLiteral(x)
<1>1. /\ MatchesIntBinLiteral(s) <=> MatchesIntBinLiteral(x)
      /\ MatchesIntHexLiteral(s) <=> MatchesIntHexLiteral(x)
      /\ EndsInteger(s) <=> EndsInteger(x)
  BY IntegerLocal
<1>2. HexPrefix(s) <=> HexPrefix(x)
  BY HexPrefixLocal
<1>3. DotHexPrefix(s) <=> DotHexPrefix(x)
  BY HexPrefixLocal
<1>4. /\ HasAt(s, 0, {"0"}) <=> HasAt(x, 0, {"0"})
      /\ HasAt(s, 0, Digits) <=> HasAt(x, 0, Digits)
      /\ HasAt(s, 0, {"."}) <=> HasAt(x, 0, {"."})
      /\ HasAt(s, 1, Digits) <=> HasAt(x, 1, Digits)
  BY NumberHead, NumberNames
<1>5. MatchesIntOctLiteral(s) <=> MatchesIntOctLiteral(x)
  BY <1>1, <1>4 DEF MatchesIntOctLiteral
<1>6. MatchesIntDecLiteral(s) <=> MatchesIntDecLiteral(x)
  BY <1>1, <1>4, <1>5 DEF MatchesIntDecLiteral
<1>7. MatchesFloatHexLiteral(s) <=> MatchesFloatHexLiteral(x)
  BY <1>1, <1>2, <1>3 DEF MatchesFloatHexLiteral
<1>8. MatchesFloatLiteral(s) <=> MatchesFloatLiteral(x)
  BY <1>1, <1>4, <1>5, <1>6, <1>7 DEF MatchesFloatLiteral
<1> QED
  BY <1>1, <1>5, <1>6, <1>7, <1>8

\* Consuming twice is consuming the sum.
LEMMA PastPast ==
  ASSUME NEW y \in Seq(Character), NEW n \in Nat, NEW m \in Nat, n + m <= Len(y)
  PROVE  Past(Past(y, n), m) = Past(y, n + m)
<1>1. n \in 0..Len(y) /\ n + m \in 0..Len(y) /\ Len(y) \in Nat
  OBVIOUS
<1>2. /\ Past(y, n) \in Seq(Character) /\ Len(Past(y, n)) = Len(y) - n
      /\ \A k \in 1..Len(y) - n : Past(y, n)[k] = y[n + k]
  BY <1>1, PastProps
<1>3. m \in 0..Len(Past(y, n))
  BY <1>1, <1>2
<1>4. /\ Past(Past(y, n), m) \in Seq(Character) /\ Len(Past(Past(y, n), m)) = Len(Past(y, n)) - m
      /\ \A k \in 1..Len(Past(y, n)) - m : Past(Past(y, n), m)[k] = Past(y, n)[m + k]
  BY <1>2, <1>3, PastProps
<1>5. /\ Past(y, n + m) \in Seq(Character) /\ Len(Past(y, n + m)) = Len(y) - (n + m)
      /\ \A k \in 1..Len(y) - (n + m) : Past(y, n + m)[k] = y[(n + m) + k]
  BY <1>1, PastProps
<1>6. Len(Past(y, n)) - m = Len(y) - (n + m)
  BY <1>1, <1>2
<1>7. \A k \in 1..Len(y) - (n + m) : Past(Past(y, n), m)[k] = Past(y, n + m)[k]
  <2> SUFFICES ASSUME NEW k \in 1..Len(y) - (n + m)
               PROVE  Past(Past(y, n), m)[k] = Past(y, n + m)[k]
    OBVIOUS
  <2>1. m + k \in 1..Len(y) - n /\ n + (m + k) = (n + m) + k
    BY <1>1
  <2> QED
    BY <1>2, <1>4, <1>5, <1>6, <2>1
<1> QED
  BY <1>4, <1>5, <1>6, <1>7, SeqEqual

\* A suffix of an integer.
LEMMA IntSuffixLocal ==
  ASSUME NEW s, NEW x, Begins(s, x), ~HasAt(s, Len(x), Continuing), NEW n \in 0..Len(x)
  PROVE  IntSuffix(Past(s, n)) = IntSuffix(Past(x, n))
<1>0. Len(x) \in Nat /\ s \in Seq(Character) /\ x \in Seq(Character) /\ Len(x) <= Len(s)
      /\ Len(s) \in Nat /\ n \in 0..Len(s) /\ n \in Nat
  BY DEF Begins
<1>1. HasAt(Past(s, n), 0, {"u", "U"}) <=> HasAt(Past(x, n), 0, {"u", "U"})
  <2>1. n + 0 = n /\ 0 \in Nat
    BY <1>0
  <2>2. HasAt(Past(s, n), 0, {"u", "U"}) <=> HasAt(s, n, {"u", "U"})
    BY <1>0, <2>1, PastProps
  <2>3. HasAt(Past(x, n), 0, {"u", "U"}) <=> HasAt(x, n, {"u", "U"})
    BY <1>0, <2>1, PastProps
  <2>4. HasAt(s, n, {"u", "U"}) <=> HasAt(x, n, {"u", "U"})
    BY NumberAt, NumberNames
  <2> QED
    BY <2>2, <2>3, <2>4
<1>2. \A m \in {0, 1} : (m = 1 => HasAt(x, n, {"u", "U"})) =>
          Span(Past(Past(s, n), m), {"l", "L"}) = Span(Past(Past(x, n), m), {"l", "L"})
  <2> SUFFICES ASSUME NEW m \in {0, 1}, m = 1 => HasAt(x, n, {"u", "U"})
               PROVE  Span(Past(Past(s, n), m), {"l", "L"}) = Span(Past(Past(x, n), m), {"l", "L"})
    OBVIOUS
  <2>1. n + m \in 0..Len(x) /\ m \in Nat
    BY <1>0 DEF HasAt
  <2>2. Past(Past(s, n), m) = Past(s, n + m) /\ Past(Past(x, n), m) = Past(x, n + m)
    BY <1>0, <2>1, PastPast
  <2>3. Span(Past(s, n + m), {"l", "L"}) = Span(Past(x, n + m), {"l", "L"})
    BY <2>1, NumberSpan, NumberNames
  <2> QED
    BY <2>2, <2>3
<1>3. HasAt(Past(x, n), 0, {"u", "U"}) <=> HasAt(x, n, {"u", "U"})
  <2>1. n + 0 = n /\ 0 \in Nat
    BY <1>0
  <2> QED
    BY <1>0, <2>1, PastProps
<1> DEFINE u == IF HasAt(Past(x, n), 0, {"u", "U"}) THEN 1 ELSE 0
<1>4. u \in {0, 1} /\ (u = 1 => HasAt(x, n, {"u", "U"}))
  BY <1>3
<1>5. Span(Past(Past(s, n), u), {"l", "L"}) = Span(Past(Past(x, n), u), {"l", "L"})
  BY <1>2, <1>4
<1>6. IntSuffix(Past(x, n)) = u + Min({2, Span(Past(Past(x, n), u), {"l", "L"})})
  BY DEF IntSuffix
<1>7. IntSuffix(Past(s, n)) = u + Min({2, Span(Past(Past(s, n), u), {"l", "L"})})
  BY <1>1 DEF IntSuffix
<1> HIDE DEF u
<1> QED
  BY <1>5, <1>6, <1>7

\* ParseInt reads of s what it reads of x.
LEMMA ParseIntLocal ==
  ASSUME NEW s, NEW x, Begins(s, x), ~HasAt(s, Len(x), Continuing), NEW prefix \in 0..Len(x),
         NEW C \in {DigitOrSep, XDigitOrSep}
  PROVE  ParseInt(s, prefix, C) = ParseInt(x, prefix, C)
<1>0. Len(x) \in Nat /\ s \in Seq(Character) /\ x \in Seq(Character) /\ C \in NumberSets
  BY NumberNames DEF Begins
<1>1. /\ Span(Past(s, prefix), C) = Span(Past(x, prefix), C)
      /\ Span(Past(x, prefix), C) \in 0..Len(x) - prefix
  BY <1>0, NumberSpan
<1> DEFINE n == prefix + Span(Past(x, prefix), C)
<1>2. n \in 0..Len(x)
  BY <1>0, <1>1
<1>3. IntSuffix(Past(s, n)) = IntSuffix(Past(x, n))
  <2> HIDE DEF n
  <2> QED
    BY <1>2, IntSuffixLocal
<1>4. ParseInt(x, prefix, C) = n + IntSuffix(Past(x, n))
  BY DEF ParseInt
<1>5. ParseInt(s, prefix, C) = n + IntSuffix(Past(s, n))
  BY <1>1 DEF ParseInt
<1> QED
  BY <1>3, <1>4, <1>5

\* An exponent with its sign, and a suffix.
LEMMA ParseExponentLocal ==
  ASSUME NEW s, NEW x, Begins(s, x), ~HasAt(s, Len(x), Continuing), NEW n \in Nat, n < Len(x)
  PROVE  /\ ParseExponent(s, n) = ParseExponent(x, n)
         /\ ParseExponent(x, n) \in 0..Len(x)
<1>0. Len(x) \in Nat /\ s \in Seq(Character) /\ x \in Seq(Character)
  BY DEF Begins
<1>1. HasAt(s, n, {"+", "-"}) <=> HasAt(x, n, {"+", "-"})
  BY HasAtInside
<1> DEFINE signed == n + (IF HasAt(x, n, {"+", "-"}) THEN 1 ELSE 0)
<1>2. signed \in 0..Len(x)
  BY <1>0
<1>3. /\ Span(Past(s, signed), DigitOrSep) = Span(Past(x, signed), DigitOrSep)
      /\ Span(Past(x, signed), DigitOrSep) \in 0..Len(x) - signed
  <2> HIDE DEF signed
  <2> QED
    BY <1>2, NumberSpan, NumberNames
<1>4. ParseExponent(x, n) = signed + Span(Past(x, signed), DigitOrSep)
  BY DEF ParseExponent
<1>5. ParseExponent(s, n) = signed + Span(Past(s, signed), DigitOrSep)
  BY <1>1 DEF ParseExponent
<1>6. signed + Span(Past(x, signed), DigitOrSep) \in 0..Len(x)
  <2> HIDE DEF signed
  <2> QED
    BY <1>0, <1>2, <1>3
<1> QED
  BY <1>3, <1>4, <1>5, <1>6

\* So does the scan of an identifier, which a word behind x would lengthen.
LEMMA IdentSpanLocal ==
  ASSUME NEW s, NEW x, Begins(s, x), ~HasAt(s, Len(x), Word), NEW n \in 0..Len(x)
  PROVE  /\ IdentSpan(Past(s, n)) = IdentSpan(Past(x, n))
         /\ IdentSpan(Past(x, n)) \in 0..Len(x) - n
<1>0. Len(x) \in Nat /\ s \in Seq(Character) /\ x \in Seq(Character) /\ Len(x) <= Len(s)
      /\ Len(s) \in Nat /\ n \in 0..Len(s) /\ n \in Nat /\ n + 0 = n /\ 0 \in Nat
  BY DEF Begins
<1>1. Digits \subseteq Word
  BY DEF Word
<1>2. ~HasAt(s, Len(x), Digits)
  BY <1>1, HasAtSmaller
<1>3. HasAt(s, n, Digits) <=> HasAt(x, n, Digits)
  BY <1>2, HasAtLocal
<1>4. HasAt(Past(s, n), 0, Digits) <=> HasAt(s, n, Digits)
  BY <1>0, PastProps
<1>5. HasAt(Past(x, n), 0, Digits) <=> HasAt(x, n, Digits)
  BY <1>0, PastProps
<1>6. /\ Span(Past(s, n), Word) = Span(Past(x, n), Word)
      /\ Span(Past(x, n), Word) \in 0..Len(x) - n
  BY SpanLocal
<1>7. 0 \in 0..Len(x) - n
  BY <1>0
<1> QED
  BY <1>3, <1>4, <1>5, <1>6, <1>7 DEF IdentSpan

\* The suffix of a floating point number.
LEMMA FloatSuffixLocal ==
  ASSUME NEW s, NEW x, Begins(s, x), ~HasAt(s, Len(x), Continuing), NEW n \in 0..Len(x)
  PROVE  FloatSuffix(s, n) = FloatSuffix(x, n)
<1>1. ~HasAt(s, Len(x), Word)
  BY NumberNames, NumberSetsContinue, HasAtSmaller
<1>2. IdentSpan(Past(s, n)) = IdentSpan(Past(x, n))
  BY <1>1, IdentSpanLocal
<1>3. HasAt(s, n, {"f", "F", "l", "L"}) <=> HasAt(x, n, {"f", "F", "l", "L"})
  BY NumberAt, NumberNames
<1> QED
  BY <1>2, <1>3 DEF FloatSuffix

\* A character that may not be the last has another behind it.
LEMMA LastCharacter ==
  ASSUME NEW x \in Seq(Character), x # <<>>, NEW n \in 0..Len(x), NEW C, HasAt(x, n, C), Last(x) \notin C
  PROVE  n + 1 < Len(x)
BY DEF HasAt, Last

\* ParseFloat reads of s what it reads of x, whose exponent has digits.
LEMMA ParseFloatLocal ==
  ASSUME NEW s, NEW x, Begins(s, x), x # <<>>, ~HasAt(s, Len(x), Continuing), Last(x) \notin {"e", "E"}
  PROVE  ParseFloat(s) = ParseFloat(x)
<1>0. Len(x) \in Nat /\ s \in Seq(Character) /\ x \in Seq(Character)
  BY DEF Begins
<1> DEFINE whole == Span(x, DigitOrSep)
           dotted == HasAt(x, whole, {"."})
           mantissa == IF dotted THEN whole + 1 + Span(Past(x, whole + 1), DigitOrSep) ELSE whole
           hasExp == HasAt(x, mantissa, {"e", "E"})
<1>1. Span(s, DigitOrSep) = whole /\ whole \in 0..Len(x)
  BY NumberHead, NumberNames
<1>2. HasAt(s, whole, {"."}) <=> dotted
  BY <1>1, NumberAt, NumberNames
<1>4. /\ mantissa \in 0..Len(x)
      /\ dotted => Span(Past(s, whole + 1), DigitOrSep) = Span(Past(x, whole + 1), DigitOrSep)
  <2>1. CASE dotted
    <3>1. whole + 1 \in 0..Len(x)
      BY <1>0, <1>1, <2>1 DEF HasAt
    <3>2. /\ Span(Past(s, whole + 1), DigitOrSep) = Span(Past(x, whole + 1), DigitOrSep)
          /\ Span(Past(x, whole + 1), DigitOrSep) \in 0..Len(x) - (whole + 1)
      BY <3>1, NumberSpan, NumberNames
    <3>3. mantissa = whole + 1 + Span(Past(x, whole + 1), DigitOrSep)
      BY <2>1
    <3>4. mantissa \in 0..Len(x)
      <4> HIDE DEF whole, mantissa
      <4> QED
        BY <1>0, <1>1, <3>1, <3>2, <3>3
    <3> QED
      BY <3>2, <3>4
  <2>2. CASE ~dotted
    BY <1>1, <2>2
  <2> QED
    BY <2>1, <2>2
<1>5. HasAt(s, mantissa, {"e", "E"}) <=> hasExp
  BY <1>4, NumberAt, NumberNames
<1>6. hasExp => ParseExponent(s, mantissa + 1) = ParseExponent(x, mantissa + 1)
                /\ ParseExponent(x, mantissa + 1) \in 0..Len(x)
  <2> SUFFICES ASSUME hasExp PROVE /\ ParseExponent(s, mantissa + 1) = ParseExponent(x, mantissa + 1)
                                   /\ ParseExponent(x, mantissa + 1) \in 0..Len(x)
    OBVIOUS
  <2> HIDE DEF mantissa
  <2>1. mantissa + 1 < Len(x)
    BY <1>0, <1>4, LastCharacter
  <2>2. mantissa + 1 \in Nat
    BY <1>4
  <2> QED
    BY <2>1, <2>2, ParseExponentLocal
<1> DEFINE end == IF hasExp THEN ParseExponent(x, mantissa + 1) ELSE mantissa
<1>7. end \in 0..Len(x)
  BY <1>4, <1>6
<1>8. FloatSuffix(s, end) = FloatSuffix(x, end)
  BY <1>7, FloatSuffixLocal
<1>9. ParseFloat(x) = IF ~dotted /\ ~hasExp THEN Throws ELSE FloatSuffix(x, end)
  BY DEF ParseFloat
<1>10. ParseFloat(s) = IF ~dotted /\ ~hasExp THEN Throws ELSE FloatSuffix(s, end)
  <2> DEFINE mantissaS == IF HasAt(s, whole, {"."}) THEN whole + 1 + Span(Past(s, whole + 1), DigitOrSep)
                          ELSE whole
             hasExpS == HasAt(s, mantissaS, {"e", "E"})
  <2>1. mantissaS = mantissa
    BY <1>2, <1>4
  <2>2. ParseFloat(s) = IF ~HasAt(s, whole, {"."}) /\ ~hasExpS THEN Throws
                        ELSE FloatSuffix(s, IF hasExpS THEN ParseExponent(s, mantissaS + 1) ELSE mantissaS)
    BY <1>1 DEF ParseFloat
  <2>3. hasExpS <=> hasExp
    BY <1>5, <2>1
  <2> HIDE DEF mantissa, mantissaS, hasExp, hasExpS, whole, dotted
  <2> QED
    BY <1>2, <1>6, <2>1, <2>2, <2>3
<1> QED
  BY <1>8, <1>9, <1>10

----------------------------------------------------------------------------
(* Hexadecimal floats, and searching a text.                               *)

\* A hexadecimal prefix further on, which lies within x.
LEMMA HexPrefixAt ==
  ASSUME NEW s, NEW x, Begins(s, x), ~HasAt(s, Len(x), Continuing), NEW n \in 0..Len(x)
  PROVE  /\ HexPrefix(Past(s, n)) <=> HexPrefix(Past(x, n))
         /\ HexPrefix(Past(x, n)) => n + 2 <= Len(x)
<1>0. Len(x) \in Nat /\ s \in Seq(Character) /\ x \in Seq(Character) /\ Len(x) <= Len(s)
      /\ Len(s) \in Nat /\ n \in 0..Len(s) /\ n \in Nat /\ n + 0 = n /\ 0 \in Nat /\ 1 \in Nat
  BY DEF Begins
<1>1. \A y \in Seq(Character) : n \in 0..Len(y) =>
         (HexPrefix(Past(y, n)) <=> HasAt(y, n, {"0"}) /\ HasAt(y, n + 1, {"x", "X"}))
  <2> SUFFICES ASSUME NEW y \in Seq(Character), n \in 0..Len(y)
               PROVE  HexPrefix(Past(y, n)) <=> HasAt(y, n, {"0"}) /\ HasAt(y, n + 1, {"x", "X"})
    OBVIOUS
  <2>1. HasAt(Past(y, n), 0, {"0"}) <=> HasAt(y, n, {"0"})
    BY <1>0, PastProps
  <2>2. HasAt(Past(y, n), 1, {"x", "X"}) <=> HasAt(y, n + 1, {"x", "X"})
    BY <1>0, PastProps
  <2> QED
    BY <2>1, <2>2 DEF HexPrefix
<1>2. HasAt(s, n, {"0"}) <=> HasAt(x, n, {"0"})
  BY NumberAt, NumberNames
<1>3. CASE HasAt(x, n, {"0"})
  <2>1. n + 1 \in 0..Len(x)
    BY <1>0, <1>3 DEF HasAt
  <2>2. HasAt(s, n + 1, {"x", "X"}) <=> HasAt(x, n + 1, {"x", "X"})
    BY <2>1, NumberAt, NumberNames
  <2>3. HasAt(x, n + 1, {"x", "X"}) => n + 2 <= Len(x)
    BY <1>0 DEF HasAt
  <2> QED
    BY <1>0, <1>1, <1>2, <2>2, <2>3
<1>4. CASE ~HasAt(x, n, {"0"})
  BY <1>0, <1>1, <1>2, <1>4
<1> QED
  BY <1>3, <1>4

\* ParseFloatHex reads of s what it reads of x, or throws for both.
LEMMA ParseFloatHexLocal ==
  ASSUME NEW s, NEW x, Begins(s, x), x # <<>>, ~HasAt(s, Len(x), Continuing),
         Last(x) \notin {"p", "P"}, MatchesFloatHexLiteral(x)
  PROVE  ParseFloatHex(s) = ParseFloatHex(x)
<1>0. Len(x) \in Nat /\ s \in Seq(Character) /\ x \in Seq(Character)
  BY DEF Begins
<1> DEFINE prefix == IF DotHexPrefix(x) THEN 3 ELSE 2
           whole == prefix + Span(Past(x, prefix), XDigitOrSep)
           point == IF HasAt(x, whole, {"."}) THEN whole + 1 ELSE whole
           mantissa == IF HexPrefix(Past(x, point))
                       THEN point + 2 + Span(Past(x, point + 2), XDigitOrSep) ELSE point
           exp == HasAt(x, mantissa, {"p", "P"})
<1>1. DotHexPrefix(s) <=> DotHexPrefix(x)
  BY HexPrefixLocal
<1>2. prefix \in 0..Len(x)
  <2>1. HexPrefix(x) \/ DotHexPrefix(x)
    BY DEF MatchesFloatHexLiteral
  <2>2. CASE DotHexPrefix(x)
    <3>1. 1 \in 0..Len(x) /\ HexPrefix(Past(x, 1))
      BY <1>0, <2>2 DEF DotHexPrefix, HasAt
    <3>2. 1 + 2 <= Len(x)
      BY <3>1, HexPrefixAt
    <3> QED
      BY <1>0, <2>2, <3>2
  <2>3. CASE HexPrefix(x)
    <3>1. 0 \in 0..Len(x) /\ Past(x, 0) = x
      BY <1>0, PastZero
    <3>2. 0 + 2 <= Len(x)
      BY <2>3, <3>1, HexPrefixAt
    <3> QED
      BY <1>0, <2>2, <3>2
  <2> QED
    BY <2>1, <2>2, <2>3
<1>3. /\ Span(Past(s, prefix), XDigitOrSep) = Span(Past(x, prefix), XDigitOrSep)
      /\ Span(Past(x, prefix), XDigitOrSep) \in 0..Len(x) - prefix
  <2> HIDE DEF prefix
  <2> QED
    BY <1>2, NumberSpan, NumberNames
<1>4. whole \in 0..Len(x)
  <2> HIDE DEF prefix
  <2> QED
    BY <1>0, <1>2, <1>3
<1>5. HasAt(s, whole, {"."}) <=> HasAt(x, whole, {"."})
  <2> HIDE DEF whole
  <2> QED
    BY <1>4, NumberAt, NumberNames
<1>6. point \in 0..Len(x)
  <2> HIDE DEF whole
  <2> QED
    BY <1>0, <1>4 DEF HasAt
<1>7. /\ HexPrefix(Past(s, point)) <=> HexPrefix(Past(x, point))
      /\ HexPrefix(Past(x, point)) => point + 2 <= Len(x)
  <2> HIDE DEF point
  <2> QED
    BY <1>6, HexPrefixAt
<1>8. /\ mantissa \in 0..Len(x)
      /\ HexPrefix(Past(x, point)) => Span(Past(s, point + 2), XDigitOrSep) = Span(Past(x, point + 2), XDigitOrSep)
  <2> HIDE DEF point
  <2>1. CASE HexPrefix(Past(x, point))
    <3>1. point + 2 \in 0..Len(x)
      BY <1>0, <1>6, <1>7, <2>1
    <3>2. /\ Span(Past(s, point + 2), XDigitOrSep) = Span(Past(x, point + 2), XDigitOrSep)
          /\ Span(Past(x, point + 2), XDigitOrSep) \in 0..Len(x) - (point + 2)
      BY <3>1, NumberSpan, NumberNames
    <3>3. mantissa = point + 2 + Span(Past(x, point + 2), XDigitOrSep)
      BY <2>1
    <3>4. mantissa \in 0..Len(x)
      <4> HIDE DEF mantissa
      <4> QED
        BY <1>0, <1>6, <3>1, <3>2, <3>3
    <3> QED
      BY <3>2, <3>4
  <2>2. CASE ~HexPrefix(Past(x, point))
    BY <1>6, <2>2
  <2> QED
    BY <2>1, <2>2
<1>9. HasAt(s, mantissa, {"p", "P"}) <=> exp
  <2> HIDE DEF mantissa
  <2> QED
    BY <1>8, NumberAt, NumberNames
<1>10. exp => /\ ParseExponent(s, mantissa + 1) = ParseExponent(x, mantissa + 1)
              /\ FloatSuffix(s, ParseExponent(x, mantissa + 1)) = FloatSuffix(x, ParseExponent(x, mantissa + 1))
  <2> HIDE DEF mantissa
  <2> SUFFICES ASSUME exp
               PROVE  /\ ParseExponent(s, mantissa + 1) = ParseExponent(x, mantissa + 1)
                      /\ FloatSuffix(s, ParseExponent(x, mantissa + 1)) = FloatSuffix(x, ParseExponent(x, mantissa + 1))
    OBVIOUS
  <2>1. mantissa + 1 < Len(x)
    BY <1>0, <1>8, LastCharacter
  <2>2. mantissa + 1 \in Nat
    BY <1>8
  <2>3. /\ ParseExponent(s, mantissa + 1) = ParseExponent(x, mantissa + 1)
        /\ ParseExponent(x, mantissa + 1) \in 0..Len(x)
    BY <2>1, <2>2, ParseExponentLocal
  <2> QED
    BY <2>3, FloatSuffixLocal
<1>11. ParseFloatHex(x) = IF exp THEN FloatSuffix(x, ParseExponent(x, mantissa + 1)) ELSE Throws
  BY DEF ParseFloatHex
<1>12. ParseFloatHex(s) = IF exp THEN FloatSuffix(s, ParseExponent(s, mantissa + 1)) ELSE Throws
  <2> DEFINE wholeS == prefix + Span(Past(s, prefix), XDigitOrSep)
             pointS == IF HasAt(s, wholeS, {"."}) THEN wholeS + 1 ELSE wholeS
             mantissaS == IF HexPrefix(Past(s, pointS))
                          THEN pointS + 2 + Span(Past(s, pointS + 2), XDigitOrSep) ELSE pointS
  <2>1. ParseFloatHex(s) = IF HasAt(s, mantissaS, {"p", "P"})
                           THEN FloatSuffix(s, ParseExponent(s, mantissaS + 1)) ELSE Throws
    BY <1>1 DEF ParseFloatHex
  <2>2. wholeS = whole
    BY <1>3
  <2>3. pointS = point
    <3> HIDE DEF whole, wholeS
    <3> QED
      BY <1>5, <2>2
  <2>4. mantissaS = mantissa
    <3> HIDE DEF point, pointS
    <3> QED
      BY <1>7, <1>8, <2>3
  <2> HIDE DEF mantissa, mantissaS
  <2> QED
    BY <1>9, <2>1, <2>4
<1> HIDE DEF mantissa
<1> QED
  BY <1>10, <1>11, <1>12

\* t stands in s from position i on.
Stands(s, i, t) ==
  /\ i \in Nat /\ 1 <= i /\ i + Len(t) - 1 <= Len(s)
  /\ \A k \in 1..Len(t) : s[i + k - 1] = t[k]

\* Occurrences are the places where t stands.
LEMMA OccurrencesAre ==
  ASSUME NEW s \in Seq(Character), NEW t \in Seq(Character), NEW i
  PROVE  i \in Occurrences(s, t) <=> Stands(s, i, t)
<1>0. Len(s) \in Nat /\ Len(t) \in Nat
  OBVIOUS
<1>1. i \in 1..Len(s) - Len(t) + 1 <=> i \in Nat /\ 1 <= i /\ i + Len(t) - 1 <= Len(s)
  BY <1>0
<1>2. ASSUME i \in 1..Len(s) - Len(t) + 1
      PROVE  SubSeq(s, i, i + Len(t) - 1) = t <=> \A k \in 1..Len(t) : s[i + k - 1] = t[k]
  <2> DEFINE u == SubSeq(s, i, i + Len(t) - 1)
  <2>1. u \in Seq(Character) /\ Len(u) = Len(t) /\ \A k \in 1..Len(t) : u[k] = s[i + k - 1]
    BY <1>0, <1>2
  <2>2. (\A k \in 1..Len(t) : u[k] = t[k]) => u = t
    <3> HIDE DEF u
    <3> QED
      BY <2>1, SeqEqual
  <2> HIDE DEF u
  <2>3. u = t <=> \A k \in 1..Len(t) : s[i + k - 1] = t[k]
    BY <2>1, <2>2
  <2> QED
    BY <2>3 DEF u
<1> QED
  BY <1>1, <1>2 DEF Occurrences, Stands

\* What is before the first t: a prefix without t, up to where t stands or all of the text.
LEMMA BeforeProps ==
  ASSUME NEW s \in Seq(Character), NEW t \in Seq(Character), t # <<>>
  PROVE  LET n == Len(Before(s, t))
         IN  /\ n \in 0..Len(s) /\ Before(s, t) \in Seq(Character)
             /\ \A k \in 1..n : Before(s, t)[k] = s[k]
             /\ \/ n = Len(s) /\ Before(s, t) = s /\ Occurrences(s, t) = {}
                \/ Stands(s, n + 1, t) /\ n < Len(s)
             /\ \A i \in 1..n : ~Stands(s, i, t)
<1> DEFINE O == Occurrences(s, t)
<1>0. Len(s) \in Nat /\ Len(t) \in Nat /\ Len(t) >= 1
  OBVIOUS
<1>1. CASE O = {}
  <2>1. Before(s, t) = s
    BY <1>1 DEF Before
  <2>2. \A i : ~Stands(s, i, t)
    BY <1>1, OccurrencesAre
  <2> QED
    BY <1>0, <1>1, <2>1, <2>2
<1>2. CASE O # {}
  <2>0. O \in SUBSET Nat
    BY DEF Occurrences
  <2>1. Min(O) \in O /\ \A i \in O : Min(O) <= i
    <3> HIDE DEF O
    <3> QED
      BY <1>2, <2>0, MinOf
  <2>2. Stands(s, Min(O), t)
    BY <2>1, OccurrencesAre
  <2>3. Min(O) \in 1..Len(s)
    BY <1>0, <2>2 DEF Stands
  <2>4. Before(s, t) = SubSeq(s, 1, Min(O) - 1)
    BY <1>2 DEF Before
  <2> HIDE DEF O
  <2>5. /\ Len(Before(s, t)) = Min(O) - 1 /\ Before(s, t) \in Seq(Character)
        /\ \A k \in 1..Min(O) - 1 : Before(s, t)[k] = s[k]
    BY <1>0, <2>3, <2>4
  <2>6. \A i \in 1..Min(O) - 1 : ~Stands(s, i, t)
    <3> SUFFICES ASSUME NEW i \in 1..Min(O) - 1, Stands(s, i, t) PROVE FALSE
      OBVIOUS
    <3>1. i \in O
      BY OccurrencesAre DEF O
    <3> QED
      BY <2>1, <2>3, <3>1
  <2>7. (Min(O) - 1) + 1 = Min(O) /\ Min(O) - 1 \in 0..Len(s) /\ Min(O) - 1 < Len(s)
    BY <2>3
  <2> QED
    BY <2>2, <2>5, <2>6, <2>7
<1> QED
  BY <1>1, <1>2

\* t stands in x where it stands in s, unless it reaches beyond x.
LEMMA StandsLocal ==
  ASSUME NEW s, NEW x, Begins(s, x), NEW t \in Seq(Character), NEW i
  PROVE  Stands(x, i, t) <=> Stands(s, i, t) /\ i + Len(t) - 1 <= Len(x)
<1>0. Len(x) \in Nat /\ Len(s) \in Nat /\ Len(t) \in Nat /\ Len(x) <= Len(s)
  BY DEF Begins
<1>1. ASSUME i \in Nat, 1 <= i, i + Len(t) - 1 <= Len(x)
      PROVE  \A k \in 1..Len(t) : s[i + k - 1] = x[i + k - 1]
  <2> SUFFICES ASSUME NEW k \in 1..Len(t) PROVE s[i + k - 1] = x[i + k - 1]
    OBVIOUS
  <2>1. i + k - 1 \in 1..Len(x)
    BY <1>0, <1>1
  <2> QED
    BY <2>1 DEF Begins
<1> QED
  BY <1>0, <1>1 DEF Stands

\* Where t is first in x it is first in every text that begins with x.
LEMMA BeforeLocal ==
  ASSUME NEW s, NEW x, Begins(s, x), NEW t \in Seq(Character), t # <<>>, Occurrences(x, t) # {}
  PROVE  Before(s, t) = Before(x, t)
<1>0. Len(x) \in Nat /\ Len(s) \in Nat /\ Len(t) \in Nat /\ Len(x) <= Len(s) /\ Len(t) >= 1
      /\ s \in Seq(Character) /\ x \in Seq(Character)
  BY DEF Begins
<1> DEFINE n == Len(Before(x, t))
           m == Len(Before(s, t))
<1>1. /\ n \in 0..Len(x) /\ Before(x, t) \in Seq(Character)
      /\ \A k \in 1..n : Before(x, t)[k] = x[k]
      /\ Stands(x, n + 1, t)
      /\ \A i \in 1..n : ~Stands(x, i, t)
  BY <1>0, BeforeProps
<1>2. /\ m \in 0..Len(s) /\ Before(s, t) \in Seq(Character)
      /\ \A k \in 1..m : Before(s, t)[k] = s[k]
      /\ \/ m = Len(s) /\ Occurrences(s, t) = {}
         \/ Stands(s, m + 1, t)
      /\ \A i \in 1..m : ~Stands(s, i, t)
  BY <1>0, BeforeProps
<1> HIDE DEF n, m
<1>3. Stands(s, n + 1, t) /\ (n + 1) + Len(t) - 1 <= Len(x)
  BY <1>1, StandsLocal
<1>4. Stands(s, m + 1, t)
  <2>1. n + 1 \in Occurrences(s, t)
    BY <1>0, <1>3, OccurrencesAre
  <2> QED
    BY <1>2, <2>1
<1>5. ~(n < m)
  <2>1. n < m => n + 1 \in 1..m
    BY <1>1, <1>2
  <2> QED
    BY <1>2, <1>3, <2>1
<1>6. ~(m < n)
  <2> SUFFICES ASSUME m < n PROVE FALSE
    OBVIOUS
  <2>1. m + 1 \in 1..n /\ (m + 1) + Len(t) - 1 <= Len(x)
    BY <1>0, <1>1, <1>2, <1>3
  <2>2. Stands(x, m + 1, t)
    BY <1>4, <2>1, StandsLocal
  <2> QED
    BY <1>1, <2>1, <2>2
<1>7. m = n
  BY <1>1, <1>2, <1>5, <1>6
<1>8. \A k \in 1..n : Before(s, t)[k] = Before(x, t)[k]
  <2> SUFFICES ASSUME NEW k \in 1..n PROVE Before(s, t)[k] = Before(x, t)[k]
    OBVIOUS
  <2>1. k \in 1..Len(x) /\ k \in 1..m
    BY <1>0, <1>1, <1>7
  <2> QED
    BY <1>1, <1>2, <2>1 DEF Begins
<1> QED
  BY <1>1, <1>2, <1>7, <1>8, SeqEqual DEF n, m

----------------------------------------------------------------------------
(* Quoted literals.                                                        *)

\* The quotes by name.
DoubleQuote == "\""
Quotes == {DoubleQuote, "'"}

\* What opens a string, a character and a raw string.
Openings == {<<DoubleQuote>>, <<"'">>, <<"R", DoubleQuote>>}

\* Quotes are no part of words, numbers or delimiters.
LEMMA QuotesApart ==
  /\ DoubleQuote \in Character /\ "'" \in Character /\ "R" \in Character
  /\ DoubleQuote \notin Word /\ "'" \notin Word /\ "." \notin Word /\ "R" \in Word /\ ")" \notin Word
  /\ DoubleQuote # "'" /\ DoubleQuote # "R" /\ "'" # "R"
BY DEF Word, Letters, Digits, DoubleQuote, Character

\* A text of one character.
LEMMA One ==
  ASSUME NEW S, NEW a \in S, NEW p, p = <<a>>
  PROVE  /\ p \in Seq(S) /\ p # <<>> /\ p[1] = a
         /\ Len(p) \in Nat /\ 1 <= Len(p) /\ Len(p) <= 1 /\ 1 \in 1..Len(p)
         /\ \A k \in 1..Len(p) : p[k] = a
<1>1. /\ p \in Seq(S) /\ p # <<>> /\ 1 <= Len(p) /\ Len(p) <= 1 /\ p[1] = a
  OBVIOUS
<1>2. Len(p) \in Nat /\ \A k \in 1..Len(p) : k = 1
  BY <1>1
<1>3. 1 \in 1..Len(p)
  OBVIOUS
<1>4. \A k \in 1..Len(p) : p[k] = a
  BY <1>1, <1>2
<1> QED
  BY <1>1, <1>2, <1>3, <1>4, Zenon

\* A text of two characters.
LEMMA Two ==
  ASSUME NEW S, NEW a \in S, NEW b \in S, NEW p, p = <<a, b>>
  PROVE  /\ p \in Seq(S) /\ p # <<>> /\ p[1] = a /\ p[2] = b
         /\ Len(p) \in Nat /\ 1 <= Len(p) /\ 2 <= Len(p) /\ Len(p) <= 2
         /\ 1 \in 1..Len(p) /\ 2 \in 1..Len(p)
         /\ \A k \in 1..Len(p) : p[k] = a \/ p[k] = b
<1>1. /\ p \in Seq(S) /\ p # <<>> /\ 2 <= Len(p) /\ Len(p) <= 2 /\ p[1] = a /\ p[2] = b
  OBVIOUS
<1>2. Len(p) \in Nat /\ \A k \in 1..Len(p) : k = 1 \/ k = 2
  BY <1>1
<1>3. 1 <= Len(p) /\ 1 \in 1..Len(p) /\ 2 \in 1..Len(p)
  OBVIOUS
<1>4. \A k \in 1..Len(p) : p[k] = a \/ p[k] = b
  BY <1>1, <1>2
<1> QED
  BY <1>1, <1>2, <1>3, <1>4, Zenon

\* A prefix of a quoted literal is made of letters, none of them R.
LEMMA PrefixChars ==
  ASSUME NEW p \in StrlikePrefixes
  PROVE  /\ p \in Seq(Character) /\ p # <<>> /\ p[1] \in {"L", "u", "U"}
         /\ \A k \in 1..Len(p) : p[k] \in Word /\ p[k] # "R"
<1> DEFINE C == {"L", "u", "U", "8"}
<1>1. /\ "L" \in C /\ "u" \in C /\ "U" \in C /\ "8" \in C
      /\ \A c \in C : c \in Character /\ c \in Word /\ c # "R"
  BY DEF Word, Letters, Digits, Character
<1> HIDE DEF C
<1>2. ASSUME NEW a \in {"L", "u", "U"}, p = <<a>>
      PROVE  /\ p \in Seq(Character) /\ p # <<>> /\ p[1] \in {"L", "u", "U"}
             /\ \A k \in 1..Len(p) : p[k] \in Word /\ p[k] # "R"
  <2>1. a \in C /\ a \in Character
    BY <1>1
  <2>2. /\ p \in Seq(Character) /\ p # <<>> /\ p[1] = a /\ \A k \in 1..Len(p) : p[k] = a
    BY <1>2, <2>1, One
  <2> QED
    BY <1>1, <2>1, <2>2
<1>3. ASSUME NEW a \in {"u", "U"}, p = <<a, "8">>
      PROVE  /\ p \in Seq(Character) /\ p # <<>> /\ p[1] \in {"L", "u", "U"}
             /\ \A k \in 1..Len(p) : p[k] \in Word /\ p[k] # "R"
  <2>1. a \in C /\ a \in Character /\ "8" \in Character
    BY <1>1
  <2>2. /\ p \in Seq(Character) /\ p # <<>> /\ p[1] = a
        /\ \A k \in 1..Len(p) : p[k] = a \/ p[k] = "8"
    BY <1>3, <2>1, Two
  <2> QED
    BY <1>1, <2>1, <2>2
<1>4. (\E a \in {"L", "u", "U"} : p = <<a>>) \/ (\E a \in {"u", "U"} : p = <<a, "8">>)
  BY DEF StrlikePrefixes
<1> QED
  BY <1>2, <1>3, <1>4

\* What opens a quoted literal is a quote, or R and a quote.
LEMMA OpeningFacts ==
  ASSUME NEW t \in Openings
  PROVE  /\ t \in Seq(Character) /\ t # <<>> /\ 1 <= Len(t) /\ Len(t) <= 2 /\ 1 \in 1..Len(t)
         /\ Len(t) \in Nat
         /\ t[1] \in {DoubleQuote, "'", "R"} /\ (t[1] = "R" => t[2] = DoubleQuote /\ 2 <= Len(t) /\ 2 \in 1..Len(t))
         /\ (t[1] # "R" => t[1] \in Quotes)
<1>1. /\ DoubleQuote \in Character /\ "R" \in Character /\ "'" \in Character
      /\ DoubleQuote # "R" /\ "'" # "R"
  BY QuotesApart
<1>2. ASSUME NEW a \in Quotes, t = <<a>>
      PROVE  /\ t \in Seq(Character) /\ t # <<>> /\ Len(t) \in Nat /\ 1 <= Len(t) /\ Len(t) <= 2
             /\ 1 \in 1..Len(t) /\ t[1] \in {DoubleQuote, "'", "R"} /\ t[1] # "R" /\ t[1] \in Quotes
  <2>1. a \in Character /\ a # "R" /\ a \in {DoubleQuote, "'", "R"}
    BY <1>1 DEF Quotes
  <2>2. /\ t \in Seq(Character) /\ t # <<>> /\ Len(t) \in Nat /\ 1 <= Len(t) /\ Len(t) <= 1
        /\ 1 \in 1..Len(t) /\ t[1] = a
    BY <1>2, <2>1, One, Zenon
  <2>3. Len(t) <= 2
    <3> DEFINE n == Len(t)
    <3>1. n \in Nat /\ n <= 1
      BY <2>2
    <3> HIDE DEF n
    <3>2. n <= 2
      BY <3>1
    <3> QED
      BY <3>2 DEF n
  <2> QED
    BY <2>1, <2>2, <2>3, Zenon
<1>3. ASSUME t = <<"R", DoubleQuote>>
      PROVE  /\ t \in Seq(Character) /\ t # <<>> /\ Len(t) \in Nat /\ 1 <= Len(t) /\ Len(t) <= 2
             /\ 1 \in 1..Len(t) /\ 2 <= Len(t) /\ 2 \in 1..Len(t) /\ t[1] = "R" /\ t[2] = DoubleQuote
  BY <1>1, <1>3, Two
<1>4. (\E a \in Quotes : t = <<a>>) \/ t = <<"R", DoubleQuote>>
  BY DEF Openings, Quotes
<1>5. "R" \in {DoubleQuote, "'", "R"}
  OBVIOUS
<1> QED
  BY <1>2, <1>3, <1>4, <1>5, Zenon

\* An identifier, a keyword, true or false is not taken for a quoted literal, but for
\* a prefix at the end of the text.
LEMMA WordNotQuoted ==
  ASSUME NEW s, NEW x, Begins(s, x), x # <<>>, \A k \in 1..Len(x) : x[k] \in Word,
         ~HasAt(s, Len(x), Word \cup Quotes), NEW t \in Openings, MatchesQuoted(s, t)
  PROVE  s = x /\ x \in StrlikePrefixes
<1> DEFINE lx == Len(x)
           ls == Len(s)
           lt == Len(t)
           b == Before(s, t)
           n == Len(b)
<1>0. /\ lx \in Nat /\ ls \in Nat /\ lx <= ls /\ lx >= 1
      /\ \A k \in 1..lx : s[k] \in Word
  BY DEF Begins
<1>a. s \in Seq(Character) /\ x \in Seq(Character)
  BY DEF Begins
<1>b. lt \in Nat /\ 1 <= lt /\ lt <= 2 /\ 1 \in 1..lt
  BY OpeningFacts, Zenon
<1>c. t[1] # "R" => t[1] \in Quotes
  BY OpeningFacts, Zenon
<1>d. t[1] = "R" => t[2] = DoubleQuote /\ 2 <= lt /\ 2 \in 1..lt
  BY OpeningFacts, Zenon
<1>1. /\ n \in 0..ls /\ b \in Seq(Character)
      /\ \A k \in 1..n : b[k] = s[k]
      /\ (n = ls /\ b = s) \/ (Stands(s, n + 1, t) /\ n < ls)
  <2>1. t \in Seq(Character) /\ t # <<>>
    BY OpeningFacts, Zenon
  <2> QED
    BY <1>a, <2>1, BeforeProps
<1>2. b = <<>> \/ b \in StrlikePrefixes
  BY DEF MatchesQuoted
<1>3. lx < ls => s[lx + 1] \notin Word /\ s[lx + 1] \notin Quotes
  BY DEF HasAt
<1>4. \A k \in 1..n : s[k] \in Word
  <2> SUFFICES ASSUME NEW k \in 1..n PROVE s[k] \in Word
    OBVIOUS
  <2>1. CASE b = <<>>
    BY <2>1
  <2>2. CASE b \in StrlikePrefixes
    <3>1. b[k] \in Word
      <4> HIDE DEF b
      <4> QED
        BY <2>2, PrefixChars
    <3> QED
      BY <1>1, <3>1
  <2> QED
    BY <1>2, <2>1, <2>2
<1>e. Stands(s, n + 1, t) => /\ n + 1 + lt - 1 <= ls
                             /\ \A k \in 1..lt : s[n + 1 + k - 1] = t[k]
  BY DEF Stands
<1>f. s # <<>> /\ (lx = ls => s = x)
  <2>1. s # <<>>
    BY <1>0
  <2>2. lx = ls => s = x
    <3> SUFFICES ASSUME Len(x) = Len(s) PROVE s = x
      OBVIOUS
    <3>1. \A k \in 1..Len(x) : s[k] = x[k]
      BY DEF Begins
    <3> QED
      BY <1>a, <3>1, SeqEqual
  <2> QED
    BY <2>1, <2>2
<1> HIDE DEF b, n, lx, ls, lt
<1>5. n \in Nat /\ n <= lx
  <2> SUFFICES ASSUME n > lx PROVE FALSE
    BY <1>0, <1>1
  <2>1. lx + 1 \in 1..n /\ lx < ls
    BY <1>0, <1>1
  <2> QED
    BY <1>3, <1>4, <2>1
<1>6. ~Stands(s, n + 1, t)
  <2> SUFFICES ASSUME Stands(s, n + 1, t) PROVE FALSE
    OBVIOUS
  <2>1. s[n + 1] = t[1] /\ n + 1 <= ls
    <3>1. n + 1 + 1 - 1 = n + 1
      BY <1>5
    <3>2. s[n + 1 + 1 - 1] = t[1]
      BY <1>b, <1>e
    <3>3. n + 1 <= ls
      BY <1>0, <1>5, <1>b, <1>e
    <3> QED
      BY <3>1, <3>2, <3>3
  <2>2. CASE t[1] # "R"
    <3>1. s[n + 1] \in Quotes /\ s[n + 1] \notin Word
      BY <1>c, <2>1, <2>2, QuotesApart DEF Quotes
    <3>2. n + 1 \notin 1..lx
      BY <1>0, <3>1
    <3>3. n = lx /\ lx < ls
      BY <1>0, <1>5, <2>1, <3>2
    <3> QED
      BY <1>3, <3>1, <3>3
  <2>3. CASE t[1] = "R"
    <3>1. s[n + 2] = DoubleQuote /\ n + 2 <= ls
      <4>1. n + 1 + 2 - 1 = n + 2
        BY <1>5
      <4>2. s[n + 1 + 2 - 1] = t[2]
        BY <1>d, <1>e, <2>3
      <4>3. n + 2 <= ls
        BY <1>0, <1>5, <1>b, <1>d, <1>e, <2>3
      <4> QED
        BY <1>d, <2>3, <4>1, <4>2, <4>3
    <3>3. n + 2 \notin 1..lx
      BY <1>0, <3>1, QuotesApart
    <3>4. n + 1 = lx \/ n = lx
      BY <1>0, <1>5, <3>3
    <3>5. n + 1 # lx
      <4> SUFFICES ASSUME n + 1 = lx PROVE FALSE
        OBVIOUS
      <4>1. lx + 1 = n + 2 /\ lx < ls
        BY <1>0, <1>5, <3>1
      <4> QED
        BY <1>3, <3>1, <4>1 DEF Quotes
    <3>6. n # lx
      <4> SUFFICES ASSUME n = lx PROVE FALSE
        OBVIOUS
      <4>1. s[lx + 1] = "R" /\ lx < ls
        BY <1>0, <2>1, <2>3
      <4> QED
        BY <1>3, <4>1, QuotesApart
    <3> QED
      BY <3>4, <3>5, <3>6
  <2> QED
    BY <2>2, <2>3
<1>7. n = ls /\ b = s
  BY <1>1, <1>6
<1>8. lx = ls
  BY <1>0, <1>5, <1>7
<1> QED
  BY <1>2, <1>7, <1>8, <1>f

\* Neither is anything that begins with another character.
LEMMA OtherNotQuoted ==
  ASSUME NEW s \in Seq(Character), s # <<>>, s[1] \notin {"L", "u", "U", "R", DoubleQuote, "'"},
         NEW t \in Openings
  PROVE  ~MatchesQuoted(s, t)
<1> DEFINE b == Before(s, t)
           n == Len(b)
<1>0. t \in Seq(Character) /\ t # <<>> /\ t[1] \in {DoubleQuote, "'", "R"} /\ 1 \in 1..Len(t)
  BY OpeningFacts, Zenon
<1>1. /\ n \in 0..Len(s) /\ b \in Seq(Character)
      /\ \A k \in 1..n : b[k] = s[k]
      /\ (n = Len(s) /\ b = s) \/ (Stands(s, n + 1, t) /\ n < Len(s))
  BY <1>0, BeforeProps
<1>2. ~Stands(s, 1, t)
  <2> SUFFICES ASSUME Stands(s, 1, t) PROVE FALSE
    OBVIOUS
  <2>1. s[1 + 1 - 1] = t[1]
    BY <1>0 DEF Stands
  <2> QED
    BY <1>0, <2>1
<1>3. n # 0
  <2> SUFFICES ASSUME n = 0 PROVE FALSE
    OBVIOUS
  <2>1. ~Stands(s, n + 1, t)
    BY <1>2
  <2>2. n = Len(s)
    BY <1>1, <2>1
  <2> QED
    BY <2>2
<1>4. b[1] = s[1] /\ b # <<>>
  <2>1. 1 \in 1..n
    BY <1>1, <1>3
  <2> QED
    BY <1>1, <2>1
<1> HIDE DEF b, n
<1>5. b \notin StrlikePrefixes
  BY <1>4, PrefixChars
<1> QED
  BY <1>4, <1>5 DEF MatchesQuoted, b

\* As many backslashes stand before a position of x in s.
LEMMA BackslashesLocal ==
  ASSUME NEW s, NEW x, Begins(s, x), NEW start \in Nat, NEW i \in 1..Len(x)
  PROVE  Backslashes(s, start, i) = Backslashes(x, start, i)
<1>0. Len(x) \in Nat
  BY DEF Begins
<1>1. \A n \in 0..i - start - 1 :
        (\A k \in i - n..i - 1 : s[k] = "\\") <=> (\A k \in i - n..i - 1 : x[k] = "\\")
  <2> SUFFICES ASSUME NEW n \in 0..i - start - 1, NEW k \in i - n..i - 1 PROVE s[k] = x[k]
    OBVIOUS
  <2>1. k \in 1..Len(x)
    BY <1>0
  <2> QED
    BY <2>1 DEF Begins
<1>2. {n \in 0..i - start - 1 : \A k \in i - n..i - 1 : s[k] = "\\"}
        = {n \in 0..i - start - 1 : \A k \in i - n..i - 1 : x[k] = "\\"}
  BY <1>1
<1> QED
  BY <1>2 DEF Backslashes

\* ParseQuoted reads of s what it reads of a literal that ends.
LEMMA ParseQuotedLocal ==
  ASSUME NEW s, NEW x, Begins(s, x), NEW quote \in Quotes, ParseQuoted(x, quote) # Throws
  PROVE  /\ ParseQuoted(s, quote) = ParseQuoted(x, quote)
         /\ Occurrences(x, <<quote>>) # {}
<1>0. Len(x) \in Nat /\ Len(s) \in Nat /\ Len(x) <= Len(s) /\ s \in Seq(Character) /\ x \in Seq(Character)
      /\ <<quote>> \in Seq(Character) /\ <<quote>> # <<>> /\ Len(<<quote>>) = 1 /\ <<quote>>[1] = quote
  <2>1. quote \in Character
    BY QuotesApart DEF Quotes
  <2>2. <<quote>> \in Seq(Character) /\ <<quote>> # <<>> /\ Len(<<quote>>) = 1 /\ <<quote>>[1] = quote
    BY <2>1
  <2> QED
    BY <2>2 DEF Begins
<1> DEFINE start == Len(Before(x, <<quote>>)) + 1
           E == QuoteEnds(x, start, quote)
           F == QuoteEnds(s, start, quote)
<1>1. E # {} /\ ParseQuoted(x, quote) = Min(E)
  BY DEF ParseQuoted
<1>2. start \in Nat /\ start >= 1
  <2>1. Len(Before(x, <<quote>>)) \in 0..Len(x)
    BY <1>0, BeforeProps
  <2> QED
    BY <2>1
<1>3. Occurrences(x, <<quote>>) # {}
  <2>1. PICK i \in E : TRUE
    BY <1>1
  <2>2. i \in start + 1..Len(x) /\ x[i] = quote
    BY <2>1 DEF QuoteEnds
  <2> HIDE DEF start, E
  <2>3. i \in Nat /\ 1 <= i /\ i + 1 - 1 <= Len(x)
    BY <1>0, <1>2, <2>2
  <2>4. \A k \in 1..1 : x[i + k - 1] = quote
    <3> SUFFICES ASSUME NEW k \in 1..1 PROVE x[i + k - 1] = quote
      OBVIOUS
    <3>1. i + k - 1 = i
      BY <2>3
    <3> QED
      BY <2>2, <3>1
  <2>5. \A k \in 1..1 : <<quote>>[k] = quote
    BY <1>0
  <2>6. Stands(x, i, <<quote>>)
    BY <1>0, <2>3, <2>4, <2>5 DEF Stands
  <2> QED
    BY <1>0, <2>6, OccurrencesAre
<1>4. Before(s, <<quote>>) = Before(x, <<quote>>)
  BY <1>0, <1>3, BeforeLocal
<1>5. ParseQuoted(s, quote) = IF F = {} THEN Throws ELSE Min(F)
  BY <1>4 DEF ParseQuoted
<1> HIDE DEF start
<1>6. \A i \in 1..Len(x) : i \in E <=> i \in F
  <2> SUFFICES ASSUME NEW i \in 1..Len(x) PROVE i \in E <=> i \in F
    OBVIOUS
  <2>1. Backslashes(s, start, i) = Backslashes(x, start, i)
    BY <1>2, BackslashesLocal
  <2>2. s[i] = x[i]
    BY DEF Begins
  <2>3. i \in start + 1..Len(x) <=> i \in start + 1..Len(s)
    BY <1>0, <1>2
  <2> QED
    BY <2>1, <2>2, <2>3 DEF QuoteEnds
<1>7. E \in SUBSET Nat /\ F \in SUBSET Nat /\ E \subseteq 1..Len(x)
  BY <1>0, <1>2 DEF QuoteEnds
<1> HIDE DEF E, F
<1>8. Min(E) \in E /\ \A i \in E : Min(E) <= i
  BY <1>1, <1>7, MinOf
<1>9. Min(E) \in F /\ \A i \in F : Min(E) <= i
  <2>1. Min(E) \in F /\ Min(E) \in 1..Len(x)
    BY <1>6, <1>7, <1>8
  <2>2. ASSUME NEW i \in F PROVE Min(E) <= i
    <3>1. CASE i <= Len(x)
      <4>1. i \in Nat /\ i # 0
        BY <1>2, <1>7 DEF F, QuoteEnds
      <4>2. i \in 1..Len(x)
        BY <1>0, <3>1, <4>1
      <4> QED
        BY <1>6, <1>8, <4>2
    <3>2. CASE ~(i <= Len(x))
      BY <1>0, <1>7, <2>1, <3>2
    <3> QED
      BY <3>1, <3>2
  <2> QED
    BY <2>1, <2>2
<1>10. F # {} /\ Min(F) = Min(E)
  BY <1>7, <1>9, MinIs
<1> QED
  BY <1>1, <1>3, <1>5, <1>10

\* The three quoted literals and what opens them.
LEMMA OpeningNames ==
  /\ <<DoubleQuote>> \in Openings /\ <<"'">> \in Openings /\ <<"R", DoubleQuote>> \in Openings
  /\ \A y : MatchesStringLiteral(y) <=> MatchesQuoted(y, <<DoubleQuote>>)
  /\ \A y : MatchesCharLiteral(y) <=> MatchesQuoted(y, <<"'">>)
  /\ \A y : MatchesRawStringLiteral(y) <=> MatchesQuoted(y, <<"R", DoubleQuote>>)
  /\ \A y : Parse("StringLiteral", y) = ParseQuoted(y, DoubleQuote)
<1>1. <<DoubleQuote>> \in Openings /\ <<"'">> \in Openings /\ <<"R", DoubleQuote>> \in Openings
  BY Zenon DEF Openings
<1>2. \A y : MatchesStringLiteral(y) <=> MatchesQuoted(y, <<DoubleQuote>>)
  BY Zenon DEF MatchesStringLiteral, DoubleQuote
<1>3. \A y : MatchesRawStringLiteral(y) <=> MatchesQuoted(y, <<"R", DoubleQuote>>)
  BY Zenon DEF MatchesRawStringLiteral, DoubleQuote
<1>4. \A y : MatchesCharLiteral(y) <=> MatchesQuoted(y, <<"'">>)
  BY Zenon DEF MatchesCharLiteral
<1>5. \A y : Parse("StringLiteral", y) = ParseQuoted(y, DoubleQuote)
  BY DEF Parse, DoubleQuote
<1> QED
  BY <1>1, <1>2, <1>3, <1>4, <1>5, Zenon

\* A string literal at the start of a text is taken whole.
LEMMA StringLocal ==
  ASSUME NEW s, NEW x, Begins(s, x), MatchesStringLiteral(x), ParseQuoted(x, DoubleQuote) # Throws
  PROVE  MatchesStringLiteral(s) /\ ParseQuoted(s, DoubleQuote) = ParseQuoted(x, DoubleQuote)
<1>1. DoubleQuote \in Quotes
  BY DEF Quotes
<1>2. /\ ParseQuoted(s, DoubleQuote) = ParseQuoted(x, DoubleQuote)
      /\ Occurrences(x, <<DoubleQuote>>) # {}
  BY <1>1, ParseQuotedLocal
<1>3. <<DoubleQuote>> \in Seq(Character) /\ <<DoubleQuote>> # <<>>
  BY OpeningNames, OpeningFacts, Zenon
<1>4. Before(s, <<DoubleQuote>>) = Before(x, <<DoubleQuote>>)
  BY <1>2, <1>3, BeforeLocal
<1>5. MatchesQuoted(x, <<DoubleQuote>>)
  BY OpeningNames, Zenon
<1>6. MatchesQuoted(s, <<DoubleQuote>>)
  BY <1>4, <1>5 DEF MatchesQuoted
<1>7. MatchesStringLiteral(s)
  BY <1>6, OpeningNames, Zenon
<1> QED
  BY <1>2, <1>7

\* So is a character literal, which nothing before it is taken for.
LEMMA CharLocal ==
  ASSUME NEW s, NEW x, Begins(s, x), MatchesCharLiteral(x), ParseQuoted(x, "'") # Throws
  PROVE  /\ MatchesCharLiteral(s) /\ ParseQuoted(s, "'") = ParseQuoted(x, "'")
         /\ ~MatchesStringLiteral(s) /\ ~MatchesRawStringLiteral(s)
<1> DEFINE q == <<"'">>
           b == Before(x, q)
           n == Len(b)
<1>1. "'" \in Quotes
  BY DEF Quotes
<1>2. /\ ParseQuoted(s, "'") = ParseQuoted(x, "'")
      /\ Occurrences(x, q) # {}
  BY <1>1, ParseQuotedLocal
<1>3. q \in Seq(Character) /\ q # <<>> /\ 1 \in 1..Len(q) /\ q[1] = "'"
  <2>1. q \in Seq(Character) /\ q # <<>> /\ 1 \in 1..Len(q)
    BY OpeningNames, OpeningFacts, Zenon
  <2> QED
    BY <2>1
<1>4. Before(s, q) = b
  BY <1>2, <1>3, BeforeLocal
<1>5. MatchesQuoted(x, q)
  BY OpeningNames, Zenon
<1>6. MatchesQuoted(s, q)
  BY <1>4, <1>5 DEF MatchesQuoted
<1>7. MatchesCharLiteral(s)
  BY <1>6, OpeningNames, Zenon
<1>8. /\ s \in Seq(Character) /\ x \in Seq(Character) /\ Len(x) \in Nat /\ Len(s) \in Nat
      /\ Len(x) <= Len(s) /\ \A k \in 1..Len(x) : s[k] = x[k]
  BY DEF Begins
<1>9. /\ n \in 0..Len(x) /\ b \in Seq(Character)
      /\ \A k \in 1..n : b[k] = x[k]
      /\ Stands(x, n + 1, q) /\ n < Len(x)
  BY <1>2, <1>3, <1>8, BeforeProps
<1>10. b = <<>> \/ b \in StrlikePrefixes
  BY <1>5 DEF MatchesQuoted
<1>11. x[n + 1] = "'"
  <2>1. x[n + 1 + 1 - 1] = q[1]
    BY <1>3, <1>9 DEF Stands
  <2>2. n + 1 + 1 - 1 = n + 1
    BY <1>9
  <2> QED
    BY <1>3, <2>1, <2>2
<1>12. n \in Nat /\ n + 1 <= Len(s) /\ s[n + 1] = "'"
  <2>1. n + 1 \in 1..Len(x)
    BY <1>8, <1>9
  <2> QED
    BY <1>8, <1>9, <1>11, <2>1
<1>13. \A k \in 1..n : s[k] \in Word /\ s[k] # "R"
  <2> SUFFICES ASSUME NEW k \in 1..n PROVE s[k] \in Word /\ s[k] # "R"
    OBVIOUS
  <2>1. b # <<>> /\ b \in StrlikePrefixes
    BY <1>10
  <2>2. b[k] \in Word /\ b[k] # "R"
    <3> HIDE DEF b
    <3> QED
      BY <2>1, PrefixChars
  <2>3. k \in 1..Len(x)
    BY <1>8, <1>9
  <2> QED
    BY <1>8, <1>9, <2>2, <2>3
<1> HIDE DEF n
<1>14. ASSUME NEW t \in {<<DoubleQuote>>, <<"R", DoubleQuote>>}
       PROVE  ~MatchesQuoted(s, t)
  <2> DEFINE c == Before(s, t)
             m == Len(c)
  <2>1. t \in Openings /\ t[1] \in {DoubleQuote, "R"}
    <3>1. t \in Openings
      BY OpeningNames, Zenon
    <3>2. t[1] \in {DoubleQuote, "R"}
      OBVIOUS
    <3> QED
      BY <3>1, <3>2
  <2>2. t \in Seq(Character) /\ t # <<>> /\ 1 \in 1..Len(t)
    BY <2>1, OpeningFacts, Zenon
  <2>3. /\ m \in 0..Len(s) /\ c \in Seq(Character)
        /\ \A k \in 1..m : c[k] = s[k]
        /\ m = Len(s) \/ Stands(s, m + 1, t)
    BY <1>8, <2>2, BeforeProps
  <2> HIDE DEF c, m
  <2>4. Stands(s, m + 1, t) => s[m + 1] \in {DoubleQuote, "R"}
    <3> SUFFICES ASSUME Stands(s, m + 1, t) PROVE s[m + 1] \in {DoubleQuote, "R"}
      OBVIOUS
    <3>1. s[m + 1 + 1 - 1] = t[1]
      BY <2>2 DEF Stands
    <3>2. m + 1 + 1 - 1 = m + 1
      BY <2>3
    <3> QED
      BY <2>1, <3>1, <3>2
  <2>5. n + 1 <= m
    <3> SUFFICES ASSUME m <= n PROVE FALSE
      BY <1>12, <2>3
    <3>1. s[m + 1] \in {DoubleQuote, "R"}
      BY <1>12, <2>3, <2>4
    <3>2. m + 1 \in 1..n \/ m + 1 = n + 1
      BY <1>12, <2>3
    <3> QED
      BY <1>12, <1>13, <3>1, <3>2, QuotesApart
  <2>6. n + 1 \in 1..m /\ c[n + 1] = "'"
    BY <1>12, <2>3, <2>5
  <2>7. c # <<>> /\ c \notin StrlikePrefixes
    BY <2>6, PrefixChars, QuotesApart DEF m
  <2> QED
    BY <2>7 DEF MatchesQuoted, c
<1>15. ~MatchesStringLiteral(s) /\ ~MatchesRawStringLiteral(s)
  BY <1>14, OpeningNames, Zenon
<1> QED
  BY <1>2, <1>7, <1>15

\* To be a prefix of the rest is to stand there.
LEMMA PrefixStands ==
  ASSUME NEW y \in Seq(Character), NEW t \in Seq(Character), NEW i \in 0..Len(y)
  PROVE  IsPrefix(t, Past(y, i)) <=> Stands(y, i + 1, t)
<1> DEFINE p == Past(y, i)
           a == SubSeq(t, 1, Len(t))
           b == SubSeq(p, 1, Len(t))
<1>1. /\ p \in Seq(Character) /\ Len(p) = Len(y) - i
      /\ \A k \in 1..Len(y) - i : p[k] = y[i + k]
  BY PastProps
<1>2. a = t /\ Len(t) \in Nat /\ Len(y) \in Nat
  OBVIOUS
<1> HIDE DEF p
<1>3. Len(t) <= Len(p) => (a = b <=> \A k \in 1..Len(t) : t[k] = p[k])
  <2> SUFFICES ASSUME Len(t) <= Len(p) PROVE a = b <=> \A k \in 1..Len(t) : t[k] = p[k]
    OBVIOUS
  <2>1. b \in Seq(Character) /\ Len(b) = Len(t) /\ \A k \in 1..Len(t) : b[k] = p[k]
    BY <1>1, <1>2
  <2> HIDE DEF b
  <2>2. (\A k \in 1..Len(t) : t[k] = p[k]) => t = b
    BY <2>1, SeqEqual
  <2> HIDE DEF a
  <2> QED
    BY <1>2, <2>1, <2>2
<1>4. IsPrefix(t, p) <=> Len(t) <= Len(p) /\ a = b
  BY DEF IsPrefix
<1>5. Stands(y, i + 1, t) <=> Len(t) <= Len(y) - i /\ \A k \in 1..Len(t) : y[i + 1 + k - 1] = t[k]
  BY <1>2 DEF Stands
<1>6. ASSUME Len(t) <= Len(y) - i, NEW k \in 1..Len(t)
      PROVE  y[i + 1 + k - 1] = p[k]
  <2>1. i + 1 + k - 1 = i + k /\ k \in 1..Len(y) - i
    BY <1>2, <1>6
  <2> QED
    BY <1>1, <2>1
<1>7. CASE Len(t) <= Len(y) - i
  <2>1. \A k \in 1..Len(t) : y[i + 1 + k - 1] = p[k]
    BY <1>6, <1>7
  <2>2. (\A k \in 1..Len(t) : y[i + 1 + k - 1] = t[k]) <=> (\A k \in 1..Len(t) : t[k] = p[k])
    BY <2>1
  <2>3. Len(t) <= Len(p)
    BY <1>1, <1>7
  <2> QED
    BY <1>3, <1>4, <1>5, <1>7, <2>2, <2>3 DEF p
<1>8. CASE ~(Len(t) <= Len(y) - i)
  BY <1>1, <1>4, <1>5, <1>8 DEF p
<1> QED
  BY <1>7, <1>8

\* The delimiter of a raw string is a text that ends in a quote.
LEMMA RawDelimiterSeq ==
  ASSUME NEW y \in Seq(Character)
  PROVE  /\ Len(Before(y, <<DoubleQuote>>)) \in 0..Len(y)
         /\ Before(Past(y, Len(Before(y, <<DoubleQuote>>)) + 1), <<"(">>) \in Seq(Character)
         /\ RawDelimiter(y) \in Seq(Character) /\ Len(RawDelimiter(y)) >= 1
<1> DEFINE q == <<DoubleQuote>>
           n == Len(Before(y, q))
           p == Past(y, n + 1)
           b == Before(p, <<"(">>)
<1>1. q \in Seq(Character) /\ q # <<>>
  BY OpeningNames, OpeningFacts, Zenon
<1>2. "(" \in Character
  BY DEF Character
<1>3. <<"(">> \in Seq(Character) /\ <<"(">> # <<>>
  BY <1>2
<1>4. n \in 0..Len(y)
  BY <1>1, BeforeProps
<1>5. p \in Seq(Character)
  <2> HIDE DEF n
  <2>1. CASE n = Len(y)
    BY <2>1 DEF Past
  <2>2. CASE n # Len(y)
    <3>1. n + 1 \in 0..Len(y)
      BY <1>4, <2>2
    <3> HIDE DEF p
    <3> QED
      BY <3>1, PastProps DEF p
  <2> QED
    BY <2>1, <2>2
<1> HIDE DEF p
<1>6. b \in Seq(Character)
  BY <1>3, <1>5, BeforeProps
<1>7. RawDelimiter(y) = b \o q
  BY Zenon DEF RawDelimiter, DoubleQuote, p
<1> HIDE DEF b
<1>8. DoubleQuote \in Character
  BY QuotesApart
<1>9. RawDelimiter(y) \in Seq(Character) /\ Len(RawDelimiter(y)) >= 1
  BY <1>6, <1>7, <1>8
<1> QED
  BY <1>4, <1>6, <1>9 DEF b, p

\* The rest of s begins with the rest of x.
LEMMA BeginsPast ==
  ASSUME NEW s, NEW x, Begins(s, x), NEW n \in 0..Len(x)
  PROVE  Begins(Past(s, n), Past(x, n))
<1>1. /\ s \in Seq(Character) /\ x \in Seq(Character) /\ Len(x) <= Len(s)
      /\ \A k \in 1..Len(x) : s[k] = x[k]
  BY DEF Begins
<1>2. /\ Past(x, n) \in Seq(Character) /\ Len(Past(x, n)) = Len(x) - n
      /\ \A k \in 1..Len(x) - n : Past(x, n)[k] = x[n + k]
  BY <1>1, PastProps
<1>3. n \in 0..Len(s)
  BY <1>1
<1>4. /\ Past(s, n) \in Seq(Character) /\ Len(Past(s, n)) = Len(s) - n
      /\ \A k \in 1..Len(s) - n : Past(s, n)[k] = s[n + k]
  BY <1>1, <1>3, PastProps
<1>5. Len(x) \in Nat /\ Len(s) \in Nat /\ n \in Nat
  BY <1>1
<1>6. Len(Past(x, n)) <= Len(Past(s, n))
  BY <1>1, <1>2, <1>4, <1>5
<1>7. ASSUME NEW k \in 1..Len(Past(x, n)) PROVE Past(s, n)[k] = Past(x, n)[k]
  <2>1. k \in 1..Len(x) - n /\ k \in 1..Len(s) - n /\ n + k \in 1..Len(x)
    BY <1>1, <1>2, <1>5, <1>7
  <2>2. Past(s, n)[k] = s[n + k] /\ Past(x, n)[k] = x[n + k] /\ s[n + k] = x[n + k]
    BY <1>1, <1>2, <1>4, <2>1
  <2> QED
    BY <2>2
<1> QED
  BY <1>2, <1>4, <1>6, <1>7, Zenon DEF Begins

\* A raw string that ends is taken whole.
LEMMA RawLocal ==
  ASSUME NEW s, NEW x, Begins(s, x), MatchesRawStringLiteral(x), RawEnds(x) # {}, ~MatchesStringLiteral(x)
  PROVE  MatchesRawStringLiteral(s) /\ ~MatchesStringLiteral(s) /\ ParseRaw(s) = ParseRaw(x)
<1> DEFINE q == <<DoubleQuote>>
           r == <<"R", DoubleQuote>>
           l == <<"(">>
           n == Len(Before(x, q))
           px == Past(x, n + 1)
           ps == Past(s, n + 1)
           d == RawDelimiter(x)
           E == RawEnds(x)
           F == RawEnds(s)
<1>1. /\ s \in Seq(Character) /\ x \in Seq(Character) /\ Len(x) \in Nat /\ Len(s) \in Nat
      /\ Len(x) <= Len(s) /\ \A k \in 1..Len(x) : s[k] = x[k]
  BY DEF Begins
<1>2. q \in Seq(Character) /\ q # <<>> /\ r \in Seq(Character) /\ r # <<>>
  BY OpeningNames, OpeningFacts, Zenon
<1>3. l \in Seq(Character) /\ l # <<>>
  <2>1. "(" \in Character
    BY DEF Character
  <2> QED
    BY <2>1
<1>4. n \in 0..Len(x) /\ d \in Seq(Character) /\ Len(d) >= 1
  BY <1>1, RawDelimiterSeq
<1>5. E = {i \in n + 2..Len(x) : x[i] = ")" /\ IsPrefix(d, Past(x, i))}
  BY Zenon DEF RawEnds, DoubleQuote
<1>6. PICK e \in E : TRUE
  OBVIOUS
<1>7. e \in n + 2..Len(x) /\ IsPrefix(d, Past(x, e))
  BY <1>5, <1>6
<1> HIDE DEF E, F, d
<1>8. n + 1 \in 0..Len(x) /\ n < Len(x) /\ e \in 0..Len(x) /\ n + 1 < e
  <2> HIDE DEF n
  <2> QED
    BY <1>1, <1>4, <1>7
<1>9. Occurrences(x, q) # {}
  <2> HIDE DEF q
  <2>1. Len(Before(x, q)) < Len(x)
    BY <1>8
  <2>2. Before(x, q) # x
    BY <2>1, <1>1
  <2> QED
    BY <2>2 DEF Before
<1>10. Before(s, q) = Before(x, q)
  BY <1>2, <1>9, BeforeLocal
<1>11. ~MatchesStringLiteral(s)
  <2>1. ~MatchesQuoted(x, q)
    BY OpeningNames, Zenon
  <2>2. ~MatchesQuoted(s, q)
    BY <1>10, <2>1 DEF MatchesQuoted
  <2> QED
    BY <2>2, OpeningNames, Zenon
<1>12. MatchesRawStringLiteral(s)
  <2>1. MatchesQuoted(x, r)
    BY OpeningNames, Zenon
  <2>2. Before(x, r) = <<>> \/ Before(x, r) \in StrlikePrefixes
    BY <2>1 DEF MatchesQuoted
  <2>3. Stands(x, n + 1, q)
    BY <1>1, <1>2, <1>8, <1>9, BeforeProps
  <2>4. n + 1 \in 1..Len(x) /\ x[n + 1] = DoubleQuote
    <3>1. 1 \in 1..Len(q) /\ q[1] = DoubleQuote
      BY QuotesApart
    <3>2. x[n + 1 + 1 - 1] = q[1]
      BY <2>3, <3>1 DEF Stands
    <3> HIDE DEF n, q
    <3>3. n + 1 + 1 - 1 = n + 1
      BY <1>4
    <3> QED
      BY <1>4, <1>8, <3>1, <3>2, <3>3
  <2>5. Before(x, r) # x
    <3> SUFFICES ASSUME x = <<>> \/ x \in StrlikePrefixes PROVE FALSE
      BY <2>2
    <3>1. x \in StrlikePrefixes
      BY <2>4, <1>1
    <3>2. DoubleQuote \in Word
      BY <2>4, <3>1, PrefixChars
    <3> QED
      BY <3>2, QuotesApart
  <2>6. Occurrences(x, r) # {}
    BY <2>5, Zenon DEF Before
  <2>7. Before(s, r) = Before(x, r)
    BY <1>2, <2>6, BeforeLocal
  <2>8. MatchesQuoted(s, r)
    BY <2>2, <2>7 DEF MatchesQuoted
  <2> QED
    BY <2>8, OpeningNames, Zenon
<1>13. Begins(ps, px)
  BY <1>8, BeginsPast
<1>14. /\ px \in Seq(Character) /\ Len(px) = Len(x) - (n + 1)
  BY <1>1, <1>8, PastProps
<1>15. d = Before(px, l) \o q
  BY Zenon DEF RawDelimiter, DoubleQuote, d
<1>16. Occurrences(px, l) # {}
  <2> SUFFICES ASSUME Occurrences(px, l) = {} PROVE FALSE
    OBVIOUS
  <2>1. Before(px, l) = px
    BY DEF Before
  <2> HIDE DEF px
  <2>2. Len(d) >= Len(px) + 1
    <3>1. d = px \o q
      BY <1>15, <2>1
    <3>2. 1 <= Len(q)
      BY One, QuotesApart
    <3> HIDE DEF q
    <3> QED
      BY <1>2, <1>14, <3>1, <3>2
  <2>3. Stands(x, e + 1, d)
    BY <1>1, <1>4, <1>7, <1>8, PrefixStands
  <2>4. e + 1 + Len(d) - 1 <= Len(x)
    BY <2>3 DEF Stands
  <2> HIDE DEF n
  <2> QED
    BY <1>1, <1>4, <1>8, <1>14, <2>2, <2>4
<1>17. Before(ps, l) = Before(px, l)
  BY <1>3, <1>13, <1>16, BeforeLocal
<1>18. RawDelimiter(s) = d
  <2>1. RawDelimiter(s) = Before(ps, l) \o q
    BY <1>10, Zenon DEF RawDelimiter, DoubleQuote
  <2> QED
    BY <1>15, <1>17, <2>1
<1>19. F = {i \in n + 2..Len(s) : s[i] = ")" /\ IsPrefix(d, Past(s, i))}
  BY <1>10, <1>18, Zenon DEF RawEnds, DoubleQuote, F
<1> HIDE DEF n
<1>20. ASSUME NEW i \in 1..Len(x)
       PROVE  i \in E <=> i \in F /\ i + Len(d) <= Len(x)
  <2>1. i \in 0..Len(x) /\ i \in 0..Len(s) /\ s[i] = x[i]
    BY <1>1
  <2>2. IsPrefix(d, Past(x, i)) <=> Stands(x, i + 1, d)
    BY <1>1, <1>4, <2>1, PrefixStands
  <2>3. IsPrefix(d, Past(s, i)) <=> Stands(s, i + 1, d)
    BY <1>1, <1>4, <2>1, PrefixStands
  <2>4. Stands(x, i + 1, d) <=> Stands(s, i + 1, d) /\ i + 1 + Len(d) - 1 <= Len(x)
    BY <1>4, StandsLocal
  <2>5. i + 1 + Len(d) - 1 = i + Len(d)
    BY <1>4, <2>1
  <2>6. i \in n + 2..Len(x) <=> i \in n + 2..Len(s)
    BY <1>1, <1>4
  <2>7. i \in E <=> i \in n + 2..Len(x) /\ x[i] = ")" /\ Stands(x, i + 1, d)
    BY <1>5, <2>2
  <2>8. i \in F <=> i \in n + 2..Len(s) /\ s[i] = ")" /\ Stands(s, i + 1, d)
    BY <1>19, <2>3
  <2> QED
    BY <2>1, <2>4, <2>5, <2>6, <2>7, <2>8
<1>21. E \in SUBSET Nat /\ F \in SUBSET Nat /\ E \subseteq 1..Len(x) /\ \A i \in F : 1 <= i
  BY <1>1, <1>4, <1>5, <1>19
<1>22. Min(E) \in E /\ \A i \in E : Min(E) <= i
  BY <1>6, <1>21, MinOf
<1>23. Min(E) \in F /\ \A i \in F : Min(E) <= i
  <2>1. Min(E) \in 1..Len(x) /\ Min(E) \in F /\ Min(E) + Len(d) <= Len(x)
    BY <1>20, <1>21, <1>22
  <2>2. ASSUME NEW i \in F, i < Min(E) PROVE FALSE
    <3>1. i \in Nat /\ 1 <= i
      BY <1>21
    <3>2. i \in 1..Len(x) /\ i + Len(d) <= Len(x)
      BY <1>1, <1>4, <2>1, <2>2, <3>1
    <3>3. i \in E
      BY <1>20, <3>2
    <3>4. Min(E) <= i
      BY <1>22, <3>3
    <3> QED
      BY <2>1, <2>2, <3>1, <3>4
  <2> QED
    BY <1>21, <2>1, <2>2
<1>24. F # {} /\ Min(F) = Min(E)
  BY <1>21, <1>23, MinIs
<1>25. ParseRaw(s) = ParseRaw(x)
  <2>1. ParseRaw(x) = Min(E) + Len(d)
    BY <1>6 DEF ParseRaw, E, d
  <2>2. ParseRaw(s) = Min(F) + Len(d)
    BY <1>18, <1>24 DEF ParseRaw, F
  <2> QED
    BY <1>24, <2>1, <2>2
<1> QED
  BY <1>11, <1>12, <1>25

----------------------------------------------------------------------------
(* The kind of the next token.                                             *)

\* parse_tokens tries the kinds in their order.
LEMMA KindAt ==
  ASSUME NEW s, NEW prevs, NEW k \in 1..14
  PROVE  NextKind(s, prevs) = Kinds[k]
           <=> Matches(Kinds[k], s, prevs) /\ \A i \in 1..k - 1 : ~Matches(Kinds[i], s, prevs)
<1> DEFINE M == {i \in 1..14 : Matches(Kinds[i], s, prevs)}
<1>1. Len(Kinds) = 14 /\ \A i, j \in 1..14 : i # j => Kinds[i] # Kinds[j]
  BY DEF Kinds
<1>2. \A i \in 1..14 : Kinds[i] # "Unknown"
  BY DEF Kinds
<1>3. NextKind(s, prevs) = LET first == IF M # {} THEN Min(M) ELSE 0
                           IN  IF first = 0 THEN "Unknown" ELSE Kinds[first]
  BY <1>1, Zenon DEF NextKind, SelectInSeq
<1>4. M \in SUBSET Nat /\ M \subseteq 1..14
  OBVIOUS
<1> HIDE DEF M
<1>5. CASE M = {}
  <2>1. NextKind(s, prevs) = "Unknown"
    BY <1>3, <1>5
  <2> QED
    BY <1>2, <1>5, <2>1 DEF M
<1>6. CASE M # {}
  <2>1. Min(M) \in M /\ \A i \in M : Min(M) <= i
    BY <1>4, <1>6, MinOf
  <2>2. NextKind(s, prevs) = Kinds[Min(M)] /\ Min(M) \in 1..14
    <3> DEFINE m == Min(M)
    <3>1. m \in 1..14 /\ m # 0
      <4>1. m \in M
        BY <2>1
      <4> HIDE DEF m
      <4> QED
        BY <1>4, <4>1
    <3>2. NextKind(s, prevs) = IF m = 0 THEN "Unknown" ELSE Kinds[m]
      BY <1>3, <1>6, Zenon
    <3> HIDE DEF m
    <3>3. NextKind(s, prevs) = Kinds[m]
      BY <3>1, <3>2
    <3> QED
      BY <3>1, <3>3 DEF m
  <2>3. NextKind(s, prevs) = Kinds[k] <=> Min(M) = k
    BY <1>1, <2>2
  <2>4. ASSUME Min(M) = k
        PROVE  Matches(Kinds[k], s, prevs) /\ \A i \in 1..k - 1 : ~Matches(Kinds[i], s, prevs)
    <3>1. k \in M /\ \A i \in 1..k - 1 : i \notin M
      BY <2>1, <2>4
    <3>2. \A i \in 1..k - 1 : i \in 1..14
      OBVIOUS
    <3> QED
      BY <3>1, <3>2 DEF M
  <2>5. ASSUME Matches(Kinds[k], s, prevs), \A i \in 1..k - 1 : ~Matches(Kinds[i], s, prevs)
        PROVE  Min(M) = k
    <3>1. k \in M
      BY <2>5 DEF M
    <3>2. \A i \in M : k <= i
      BY <1>4, <2>5 DEF M
    <3> QED
      BY <1>4, <3>1, <3>2, MinIs
  <2> QED
    BY <2>3, <2>4, <2>5
<1> QED
  BY <1>5, <1>6

\* The kinds in the order of their numbers.
LEMMA KindNames ==
  /\ Kinds[1] = "BoolLiteral" /\ Kinds[2] = "StringLiteral" /\ Kinds[3] = "RawStringLiteral"
  /\ Kinds[4] = "CharLiteral" /\ Kinds[5] = "IntBinLiteral" /\ Kinds[6] = "IntOctLiteral"
  /\ Kinds[7] = "IntDecLiteral" /\ Kinds[8] = "IntHexLiteral" /\ Kinds[9] = "FloatLiteral"
  /\ Kinds[10] = "FloatHexLiteral" /\ Kinds[11] = "Identifier" /\ Kinds[12] = "Grouping"
  /\ Kinds[13] = "BinaryOperator" /\ Kinds[14] = "Operator"
  BY DEF Kinds

\* The matcher of each kind.
LEMMA MatchesNames ==
  ASSUME NEW s, NEW prevs
  PROVE  /\ Matches(Kinds[1], s, prevs) = MatchesBoolLiteral(s)
         /\ Matches(Kinds[2], s, prevs) = MatchesStringLiteral(s)
         /\ Matches(Kinds[3], s, prevs) = MatchesRawStringLiteral(s)
         /\ Matches(Kinds[4], s, prevs) = MatchesCharLiteral(s)
         /\ Matches(Kinds[5], s, prevs) = MatchesIntBinLiteral(s)
         /\ Matches(Kinds[6], s, prevs) = MatchesIntOctLiteral(s)
         /\ Matches(Kinds[7], s, prevs) = MatchesIntDecLiteral(s)
         /\ Matches(Kinds[8], s, prevs) = MatchesIntHexLiteral(s)
         /\ Matches(Kinds[9], s, prevs) = MatchesFloatLiteral(s)
         /\ Matches(Kinds[10], s, prevs) = MatchesFloatHexLiteral(s)
         /\ Matches(Kinds[11], s, prevs) = MatchesIdentifier(s)
         /\ Matches(Kinds[12], s, prevs) = MatchesGrouping(s, prevs)
         /\ Matches(Kinds[13], s, prevs) = MatchesBinaryOperator(s, prevs)
         /\ Matches(Kinds[14], s, prevs) = MatchesOperator(s, prevs)
  BY KindNames DEF Matches

\* The parser of each kind.
LEMMA ParseNames ==
  ASSUME NEW s
  PROVE  /\ Parse(Kinds[1], s) = IdentSpan(s)
         /\ Parse(Kinds[2], s) = ParseQuoted(s, DoubleQuote)
         /\ Parse(Kinds[3], s) = ParseRaw(s)
         /\ Parse(Kinds[4], s) = ParseQuoted(s, "'")
         /\ Parse(Kinds[5], s) = ParseInt(s, 2, DigitOrSep)
         /\ Parse(Kinds[6], s) = ParseInt(s, 1, DigitOrSep)
         /\ Parse(Kinds[7], s) = ParseInt(s, 0, DigitOrSep)
         /\ Parse(Kinds[8], s) = ParseInt(s, 2, XDigitOrSep)
         /\ Parse(Kinds[9], s) = ParseFloat(s)
         /\ Parse(Kinds[10], s) = ParseFloatHex(s)
         /\ Parse(Kinds[11], s) = IdentSpan(s)
         /\ Parse(Kinds[12], s) = 1
         /\ Parse(Kinds[13], s) = Len(Munch(s, BinaryOperators))
         /\ Parse(Kinds[14], s) = Len(Munch(s, Operators))
  BY KindNames DEF Parse, DoubleQuote

\* A number in one of its forms.
NumberMatch(y) ==
  \/ MatchesIntBinLiteral(y) \/ MatchesIntOctLiteral(y) \/ MatchesIntDecLiteral(y)
  \/ MatchesIntHexLiteral(y) \/ MatchesFloatLiteral(y) \/ MatchesFloatHexLiteral(y)

\* The kinds of numbers.
LEMMA NumberKinds ==
  ASSUME NEW s, NEW prevs, ~NumberMatch(s)
  PROVE  /\ ~Matches(Kinds[5], s, prevs) /\ ~Matches(Kinds[6], s, prevs)
         /\ ~Matches(Kinds[7], s, prevs) /\ ~Matches(Kinds[8], s, prevs)
         /\ ~Matches(Kinds[9], s, prevs) /\ ~Matches(Kinds[10], s, prevs)
<1>1. /\ ~MatchesIntBinLiteral(s) /\ ~MatchesIntOctLiteral(s) /\ ~MatchesIntDecLiteral(s)
      /\ ~MatchesIntHexLiteral(s) /\ ~MatchesFloatLiteral(s) /\ ~MatchesFloatHexLiteral(s)
  BY Zenon DEF NumberMatch
<1>2. ~Matches(Kinds[5], s, prevs)
  BY <1>1, MatchesNames, Zenon
<1>3. ~Matches(Kinds[6], s, prevs)
  BY <1>1, MatchesNames, Zenon
<1>4. ~Matches(Kinds[7], s, prevs)
  BY <1>1, MatchesNames, Zenon
<1>5. ~Matches(Kinds[8], s, prevs)
  BY <1>1, MatchesNames, Zenon
<1>6. ~Matches(Kinds[9], s, prevs)
  BY <1>1, MatchesNames, Zenon
<1>7. ~Matches(Kinds[10], s, prevs)
  BY <1>1, MatchesNames, Zenon
<1> QED
  BY <1>2, <1>3, <1>4, <1>5, <1>6, <1>7

\* A number begins with a digit, perhaps after a point.
LEMMA NumberStart ==
  ASSUME NEW y \in Seq(Character), NumberMatch(y)
  PROVE  HasAt(y, 0, Digits) \/ (HasAt(y, 0, {"."}) /\ HasAt(y, 1, Digits))
<1>1. {"0"} \subseteq Digits
  BY DEF Digits
<1>2. HasAt(y, 0, {"0"}) => HasAt(y, 0, Digits)
  BY <1>1 DEF HasAt
<1>3. MatchesIntBinLiteral(y) \/ MatchesIntOctLiteral(y) \/ MatchesIntDecLiteral(y) => HasAt(y, 0, Digits)
  BY <1>2, Zenon DEF MatchesIntBinLiteral, MatchesIntOctLiteral, MatchesIntDecLiteral
<1>4. HexPrefix(y) => HasAt(y, 0, Digits)
  BY <1>2, Zenon DEF HexPrefix
<1>5. MatchesIntHexLiteral(y) => HasAt(y, 0, Digits)
  BY <1>4, Zenon DEF MatchesIntHexLiteral
<1>6. DotHexPrefix(y) => HasAt(y, 0, {"."}) /\ HasAt(y, 1, Digits)
  <2> SUFFICES ASSUME DotHexPrefix(y) PROVE HasAt(y, 0, {"."}) /\ HasAt(y, 1, Digits)
    OBVIOUS
  <2>1. HasAt(y, 0, {"."}) /\ HasAt(Past(y, 1), 0, {"0"})
    BY DEF DotHexPrefix, HexPrefix
  <2>2. 1 \in 0..Len(y)
    BY <2>1 DEF HasAt
  <2>3. HasAt(y, 1 + 0, {"0"})
    BY <2>1, <2>2, PastProps
  <2>4. HasAt(y, 1, Digits)
    BY <1>1, <2>3 DEF HasAt
  <2> QED
    BY <2>1, <2>4
<1>7. MatchesFloatHexLiteral(y) => HexPrefix(y) \/ DotHexPrefix(y)
  BY Zenon DEF MatchesFloatHexLiteral
<1>8. MatchesFloatLiteral(y) => HasAt(y, 0, Digits) \/ (HasAt(y, 0, {"."}) /\ HasAt(y, 1, Digits))
  BY Zenon DEF MatchesFloatLiteral
<1> QED
  BY <1>3, <1>4, <1>5, <1>6, <1>7, <1>8, Zenon DEF NumberMatch

\* Nothing else is a number.
LEMMA NotNumber ==
  ASSUME NEW s \in Seq(Character), s # <<>>, s[1] \notin Digits, s[1] = "." => ~HasAt(s, 1, Digits)
  PROVE  ~NumberMatch(s)
<1>1. ~HasAt(s, 0, Digits)
  BY DEF HasAt
<1>2. ~(HasAt(s, 0, {"."}) /\ HasAt(s, 1, Digits))
  BY DEF HasAt
<1> QED
  BY <1>1, <1>2, NumberStart

\* A quoted literal begins with its quote or a prefix.
LEMMA QuotedStart ==
  ASSUME NEW s \in Seq(Character), s # <<>>, NEW t \in Openings, MatchesQuoted(s, t)
  PROVE  s[1] \in Word \cup Quotes
<1>1. s[1] \in {"L", "u", "U", "R", DoubleQuote, "'"}
  BY OtherNotQuoted
<1>2. "L" \in Word /\ "u" \in Word /\ "U" \in Word /\ "R" \in Word
  BY DEF Word, Letters
<1> QED
  BY <1>1, <1>2 DEF Quotes

\* The identifier at the start of a text.
LEMMA IdentProps ==
  ASSUME NEW y \in Seq(Character)
  PROVE  /\ IdentSpan(y) \in 0..Len(y)
         /\ \A k \in 1..IdentSpan(y) : y[k] \in Word
         /\ IdentSpan(y) > 0 => y[1] \in Word \ Digits
         /\ Len(Ident(y)) = IdentSpan(y)
         /\ IdentSpan(y) = 0 => Ident(y) = <<>>
         /\ \A k \in 1..IdentSpan(y) : Ident(y)[k] = y[k]
         /\ Ident(y) \in Seq(Character)
<1> DEFINE n == IdentSpan(y)
<1>1. n \in 0..Len(y) /\ \A k \in 1..n : y[k] \in Word
  BY SpanProps DEF IdentSpan
<1>2. n > 0 => y[1] \notin Digits
  <2> SUFFICES ASSUME n > 0 PROVE y[1] \notin Digits
    OBVIOUS
  <2>1. ~HasAt(y, 0, Digits)
    BY DEF IdentSpan
  <2>2. 0 < Len(y)
    BY <1>1
  <2> QED
    BY <2>1, <2>2 DEF HasAt
<1>3. Ident(y) = SubSeq(y, 1, n)
  BY DEF Ident
<1> HIDE DEF n
<1>4. n > 0 => y[1] \in Word
  BY <1>1
<1>5. Len(Ident(y)) = n /\ Ident(y) \in Seq(Character) /\ \A k \in 1..n : Ident(y)[k] = y[k]
  BY <1>1, <1>3
<1>6. n = 0 => Ident(y) = <<>>
  BY <1>3
<1> QED
  BY <1>1, <1>2, <1>4, <1>5, <1>6 DEF n

\* It ends in s where it ends in x.
LEMMA IdentLocal ==
  ASSUME NEW s, NEW x, Begins(s, x), ~HasAt(s, Len(x), Word)
  PROVE  /\ IdentSpan(s) = IdentSpan(x) /\ Ident(s) = Ident(x)
         /\ MatchesBoolLiteral(s) <=> MatchesBoolLiteral(x)
         /\ MatchesIdentifier(s) <=> MatchesIdentifier(x)
<1>1. /\ s \in Seq(Character) /\ x \in Seq(Character) /\ Len(x) \in Nat /\ Len(x) <= Len(s)
      /\ \A k \in 1..Len(x) : s[k] = x[k]
  BY DEF Begins
<1>2. 0 \in 0..Len(x)
  BY <1>1
<1>3. IdentSpan(s) = IdentSpan(x)
  <2>1. IdentSpan(Past(s, 0)) = IdentSpan(Past(x, 0))
    BY <1>2, IdentSpanLocal
  <2> QED
    BY <1>1, <2>1, PastZero
<1>4. Ident(s) = Ident(x)
  <2> DEFINE n == IdentSpan(x)
  <2>1. n \in 0..Len(x)
    BY <1>1, IdentProps
  <2>2. Ident(s) = SubSeq(s, 1, n) /\ Ident(x) = SubSeq(x, 1, n)
    BY <1>3 DEF Ident
  <2> HIDE DEF n
  <2>3. SubSeq(s, 1, n) = SubSeq(x, 1, n)
    <3>1. /\ SubSeq(s, 1, n) \in Seq(Character) /\ SubSeq(x, 1, n) \in Seq(Character)
          /\ Len(SubSeq(s, 1, n)) = n /\ Len(SubSeq(x, 1, n)) = n
          /\ \A k \in 1..n : SubSeq(s, 1, n)[k] = s[k] /\ SubSeq(x, 1, n)[k] = x[k]
      BY <1>1, <2>1
    <3>2. \A k \in 1..n : s[k] = x[k]
      BY <1>1, <2>1
    <3> QED
      BY <3>1, <3>2, SeqEqual
  <2> QED
    BY <2>2, <2>3
<1>5. MatchesBoolLiteral(s) <=> MatchesBoolLiteral(x)
  BY <1>4 DEF MatchesBoolLiteral
<1>6. MatchesIdentifier(s) <=> MatchesIdentifier(x)
  BY <1>3, <1>4, <1>5 DEF MatchesIdentifier
<1> QED
  BY <1>3, <1>4, <1>5, <1>6

----------------------------------------------------------------------------
(* Operands: a well formed operand is one token.                           *)

\* The characters that may not follow an operand.
LEMMA FollowSets ==
  ASSUME NEW s, NEW n, ~HasAt(s, n, Word \cup Quotes)
  PROVE  /\ ~HasAt(s, n, Word)
         /\ ~HasAt(s, n, {"."}) => ~HasAt(s, n, Continuing)
  BY DEF HasAt, Continuing, Quotes

\* A number is no quoted literal.
LEMMA NumberLast ==
  ASSUME NEW y \in Seq(Character), y # <<>>, NumberMatch(y), NEW t \in Openings
  PROVE  /\ ~MatchesQuoted(y, t)
         /\ y[1] \in Digits \/ (y[1] = "." /\ HasAt(y, 1, Digits))
<1>1. y[1] \in Digits \/ (y[1] = "." /\ HasAt(y, 1, Digits))
  BY NumberStart DEF HasAt
<1>2. y[1] \notin {"L", "u", "U", "R", DoubleQuote, "'"}
  <2>1. \A c \in Digits \cup {"."} : c \notin {"L", "u", "U", "R", "'"}
    BY DEF Digits
  <2>2. Digits \subseteq Word /\ DoubleQuote # "."
    BY DEF Word, DoubleQuote
  <2> QED
    BY <1>1, <2>1, <2>2, QuotesApart
<1> QED
  BY <1>1, <1>2, OtherNotQuoted

\* A number is taken for itself, whatever was read before it.
LEMMA NumberToken ==
  ASSUME NEW s, NEW x, Begins(s, x), x # <<>>, ~HasAt(s, Len(x), Word \cup Quotes), ~HasAt(s, Len(x), {"."}),
         NEW prevs, NEW k \in 5..10, NextKind(x, <<>>) = Kinds[k],
         k = 9 => Last(x) \notin {"e", "E"}, k = 10 => Last(x) \notin {"p", "P"}
  PROVE  NextKind(s, prevs) = Kinds[k] /\ Parse(Kinds[k], s) = Parse(Kinds[k], x)
<1>1. /\ s \in Seq(Character) /\ x \in Seq(Character) /\ Len(x) \in Nat /\ Len(s) \in Nat /\ Len(x) >= 1
      /\ Len(x) <= Len(s) /\ \A i \in 1..Len(x) : s[i] = x[i]
  BY DEF Begins
<1>2. ~HasAt(s, Len(x), Word) /\ ~HasAt(s, Len(x), Continuing)
  BY FollowSets
<1>3. Matches(Kinds[k], x, <<>>) /\ \A i \in 1..k - 1 : ~Matches(Kinds[i], x, <<>>)
  <2>1. k \in 1..14
    OBVIOUS
  <2> QED
    BY <2>1, KindAt, Zenon
<1>m. /\ k = 5 => (Matches(Kinds[k], x, <<>>) <=> MatchesIntBinLiteral(x))
      /\ k = 6 => (Matches(Kinds[k], x, <<>>) <=> MatchesIntOctLiteral(x))
      /\ k = 7 => (Matches(Kinds[k], x, <<>>) <=> MatchesIntDecLiteral(x))
      /\ k = 8 => (Matches(Kinds[k], x, <<>>) <=> MatchesIntHexLiteral(x))
      /\ k = 9 => (Matches(Kinds[k], x, <<>>) <=> MatchesFloatLiteral(x))
      /\ k = 10 => (Matches(Kinds[k], x, <<>>) <=> MatchesFloatHexLiteral(x))
  BY MatchesNames
<1>n. /\ k = 5 => (Matches(Kinds[k], s, prevs) <=> MatchesIntBinLiteral(s))
      /\ k = 6 => (Matches(Kinds[k], s, prevs) <=> MatchesIntOctLiteral(s))
      /\ k = 7 => (Matches(Kinds[k], s, prevs) <=> MatchesIntDecLiteral(s))
      /\ k = 8 => (Matches(Kinds[k], s, prevs) <=> MatchesIntHexLiteral(s))
      /\ k = 9 => (Matches(Kinds[k], s, prevs) <=> MatchesFloatLiteral(s))
      /\ k = 10 => (Matches(Kinds[k], s, prevs) <=> MatchesFloatHexLiteral(s))
  BY MatchesNames
<1>4. NumberMatch(x)
  <2>1. k = 5 \/ k = 6 \/ k = 7 \/ k = 8 \/ k = 9 \/ k = 10
    OBVIOUS
  <2> QED
    BY <1>3, <1>m, <2>1, Zenon DEF NumberMatch
<1>5. /\ MatchesIntBinLiteral(s) <=> MatchesIntBinLiteral(x)
      /\ MatchesIntOctLiteral(s) <=> MatchesIntOctLiteral(x)
      /\ MatchesIntDecLiteral(s) <=> MatchesIntDecLiteral(x)
      /\ MatchesIntHexLiteral(s) <=> MatchesIntHexLiteral(x)
      /\ MatchesFloatLiteral(s) <=> MatchesFloatLiteral(x)
      /\ MatchesFloatHexLiteral(s) <=> MatchesFloatHexLiteral(x)
  BY <1>2, NumberMatchesLocal
<1>6. NumberMatch(s)
  BY <1>4, <1>5, Zenon DEF NumberMatch
<1>7. s # <<>>
  BY <1>1
<1>8. ~MatchesStringLiteral(s) /\ ~MatchesRawStringLiteral(s) /\ ~MatchesCharLiteral(s)
  <2>1. \A t \in Openings : ~MatchesQuoted(s, t)
    BY <1>1, <1>6, <1>7, NumberLast
  <2> QED
    BY <2>1, OpeningNames, Zenon
<1>9. ~MatchesBoolLiteral(s)
  <2>1. 1 \in 1..k - 1
    OBVIOUS
  <2>2. ~MatchesBoolLiteral(x)
    BY <1>3, <2>1, MatchesNames, Zenon
  <2> QED
    BY <1>2, <2>2, IdentLocal
<1>10. Matches(Kinds[k], s, prevs)
  <2>1. k = 5 \/ k = 6 \/ k = 7 \/ k = 8 \/ k = 9 \/ k = 10
    OBVIOUS
  <2> QED
    BY <1>3, <1>5, <1>m, <1>n, <2>1, Zenon
<1>11. ASSUME NEW i \in 1..k - 1 PROVE ~Matches(Kinds[i], s, prevs)
  <2>1. i = 1 \/ i = 2 \/ i = 3 \/ i = 4 \/ i = 5 \/ i = 6 \/ i = 7 \/ i = 8 \/ i = 9
    OBVIOUS
  <2>2. ~Matches(Kinds[i], x, <<>>)
    BY <1>3
  <2>3. i \in 5..9 => (Matches(Kinds[i], s, prevs) <=> Matches(Kinds[i], x, <<>>))
    BY <1>5, MatchesNames
  <2>4. /\ ~Matches(Kinds[1], s, prevs) /\ ~Matches(Kinds[2], s, prevs)
        /\ ~Matches(Kinds[3], s, prevs) /\ ~Matches(Kinds[4], s, prevs)
    BY <1>8, <1>9, MatchesNames, Zenon
  <2> QED
    BY <2>1, <2>2, <2>3, <2>4
<1>12. NextKind(s, prevs) = Kinds[k]
  <2>1. k \in 1..14
    OBVIOUS
  <2> QED
    BY <1>10, <1>11, <2>1, KindAt
<1>13. Parse(Kinds[k], s) = Parse(Kinds[k], x)
  <2>0. 0 \in 0..Len(x) /\ 1 \in 0..Len(x)
    BY <1>1
  <2>1. CASE k = 5
    <3>1. HasAt(x, 1, {"b", "B"})
      BY <1>3, <2>1, MatchesNames, Zenon DEF MatchesIntBinLiteral
    <3>2. 2 \in 0..Len(x)
      BY <1>1, <3>1 DEF HasAt
    <3>3. ParseInt(s, 2, DigitOrSep) = ParseInt(x, 2, DigitOrSep)
      BY <1>2, <3>2, ParseIntLocal
    <3> QED
      BY <2>1, <3>3, ParseNames, Zenon
  <2>2. CASE k = 6
    <3>1. ParseInt(s, 1, DigitOrSep) = ParseInt(x, 1, DigitOrSep)
      BY <1>2, <2>0, ParseIntLocal
    <3> QED
      BY <2>2, <3>1, ParseNames, Zenon
  <2>3. CASE k = 7
    <3>1. ParseInt(s, 0, DigitOrSep) = ParseInt(x, 0, DigitOrSep)
      BY <1>2, <2>0, ParseIntLocal
    <3> QED
      BY <2>3, <3>1, ParseNames, Zenon
  <2>4. CASE k = 8
    <3>1. HasAt(x, 1, {"x", "X"})
      BY <1>3, <2>4, MatchesNames, Zenon DEF MatchesIntHexLiteral, HexPrefix
    <3>2. 2 \in 0..Len(x)
      BY <1>1, <3>1 DEF HasAt
    <3>3. ParseInt(s, 2, XDigitOrSep) = ParseInt(x, 2, XDigitOrSep)
      BY <1>2, <3>2, ParseIntLocal
    <3> QED
      BY <2>4, <3>3, ParseNames, Zenon
  <2>5. CASE k = 9
    <3>1. ParseFloat(s) = ParseFloat(x)
      BY <1>2, <2>5, ParseFloatLocal
    <3> QED
      BY <2>5, <3>1, ParseNames, Zenon
  <2>6. CASE k = 10
    <3>1. MatchesFloatHexLiteral(x)
      BY <1>3, <2>6, MatchesNames, Zenon
    <3>2. ParseFloatHex(s) = ParseFloatHex(x)
      BY <1>2, <2>6, <3>1, ParseFloatHexLocal
    <3> QED
      BY <2>6, <3>2, ParseNames, Zenon
  <2> QED
    BY <2>1, <2>2, <2>3, <2>4, <2>5, <2>6
<1> QED
  BY <1>12, <1>13

\* So is every literal.
LEMMA LiteralToken ==
  ASSUME NEW s, NEW x, Begins(s, x), x # <<>>, ~HasAt(s, Len(x), Word \cup Quotes), ~HasAt(s, Len(x), {"."}),
         NEW prevs, NEW k \in 1..10, NextKind(x, <<>>) = Kinds[k],
         k \in 1..4 => Parse(Kinds[k], x) = Len(x),
         k = 3 => RawEnds(x) # {},
         k = 9 => Last(x) \notin {"e", "E"}, k = 10 => Last(x) \notin {"p", "P"}
  PROVE  NextKind(s, prevs) = Kinds[k] /\ Parse(Kinds[k], s) = Parse(Kinds[k], x)
<1>1. /\ s \in Seq(Character) /\ x \in Seq(Character) /\ Len(x) \in Nat
      /\ Len(x) # Throws
  BY DEF Begins, Throws
<1>2. ~HasAt(s, Len(x), Word)
  BY FollowSets
<1>3. Matches(Kinds[k], x, <<>>) /\ \A i \in 1..k - 1 : ~Matches(Kinds[i], x, <<>>)
  <2>1. k \in 1..14
    OBVIOUS
  <2> QED
    BY <2>1, KindAt, Zenon
<1>4. ~MatchesBoolLiteral(x) => ~Matches(Kinds[1], s, prevs)
  BY <1>2, IdentLocal, MatchesNames
<1>5. CASE k = 1
  <2>1. MatchesBoolLiteral(s) /\ IdentSpan(s) = IdentSpan(x)
    BY <1>2, <1>3, <1>5, IdentLocal, MatchesNames
  <2>2. Parse(Kinds[1], s) = Parse(Kinds[1], x)
    BY <2>1, ParseNames
  <2>3. Matches(Kinds[1], s, prevs) /\ 1 \in 1..14 /\ 1..1 - 1 = {}
    BY <2>1, MatchesNames
  <2>4. NextKind(s, prevs) = Kinds[1]
    BY <2>3, KindAt
  <2> QED
    BY <1>5, <2>2, <2>4
<1>6. ASSUME k # 1 PROVE ~Matches(Kinds[1], s, prevs)
  <2>1. 1 \in 1..k - 1
    BY <1>6
  <2>2. ~MatchesBoolLiteral(x)
    BY <1>3, <2>1, MatchesNames, Zenon
  <2> QED
    BY <1>4, <2>2
<1>7. CASE k = 2
  <2>1. MatchesStringLiteral(x)
    BY <1>3, <1>7, MatchesNames, Zenon
  <2>2. ParseQuoted(x, DoubleQuote) # Throws
    BY <1>1, <1>7, ParseNames
  <2>3. MatchesStringLiteral(s) /\ ParseQuoted(s, DoubleQuote) = ParseQuoted(x, DoubleQuote)
    BY <2>1, <2>2, StringLocal
  <2>4. Matches(Kinds[2], s, prevs)
    BY <2>3, MatchesNames, Zenon
  <2>5. \A i \in 1..2 - 1 : ~Matches(Kinds[i], s, prevs)
    <3>1. \A i \in 1..2 - 1 : i = 1
      OBVIOUS
    <3>2. ~Matches(Kinds[1], s, prevs)
      BY <1>6, <1>7
    <3> QED
      BY <3>1, <3>2
  <2>6. NextKind(s, prevs) = Kinds[2]
    BY <2>4, <2>5, KindAt
  <2>7. Parse(Kinds[2], s) = Parse(Kinds[2], x)
    BY <2>3, ParseNames, Zenon
  <2> QED
    BY <1>7, <2>6, <2>7
<1>8. CASE k = 3
  <2>1. MatchesRawStringLiteral(x)
    BY <1>3, <1>8, MatchesNames, Zenon
  <2>2. ~MatchesStringLiteral(x)
    <3>1. 2 \in 1..k - 1
      BY <1>8
    <3> QED
      BY <1>3, <3>1, MatchesNames, Zenon
  <2>3. MatchesRawStringLiteral(s) /\ ~MatchesStringLiteral(s) /\ ParseRaw(s) = ParseRaw(x)
    BY <1>8, <2>1, <2>2, RawLocal
  <2>4. Matches(Kinds[3], s, prevs) /\ ~Matches(Kinds[2], s, prevs)
    BY <2>3, MatchesNames, Zenon
  <2>5. \A i \in 1..3 - 1 : ~Matches(Kinds[i], s, prevs)
    <3>1. \A i \in 1..3 - 1 : i = 1 \/ i = 2
      OBVIOUS
    <3>2. ~Matches(Kinds[1], s, prevs)
      BY <1>6, <1>8
    <3> QED
      BY <2>4, <3>1, <3>2
  <2>6. NextKind(s, prevs) = Kinds[3]
    BY <2>4, <2>5, KindAt
  <2>7. Parse(Kinds[3], s) = Parse(Kinds[3], x)
    BY <2>3, ParseNames, Zenon
  <2> QED
    BY <1>8, <2>6, <2>7
<1>9. CASE k = 4
  <2>1. MatchesCharLiteral(x)
    BY <1>3, <1>9, MatchesNames, Zenon
  <2>2. ParseQuoted(x, "'") # Throws
    BY <1>1, <1>9, ParseNames
  <2>3. /\ MatchesCharLiteral(s) /\ ParseQuoted(s, "'") = ParseQuoted(x, "'")
        /\ ~MatchesStringLiteral(s) /\ ~MatchesRawStringLiteral(s)
    BY <2>1, <2>2, CharLocal
  <2>4. Matches(Kinds[4], s, prevs) /\ ~Matches(Kinds[2], s, prevs) /\ ~Matches(Kinds[3], s, prevs)
    BY <2>3, MatchesNames, Zenon
  <2>5. \A i \in 1..4 - 1 : ~Matches(Kinds[i], s, prevs)
    <3>1. \A i \in 1..4 - 1 : i = 1 \/ i = 2 \/ i = 3
      OBVIOUS
    <3>2. ~Matches(Kinds[1], s, prevs)
      BY <1>6, <1>9
    <3> QED
      BY <2>4, <3>1, <3>2
  <2>6. NextKind(s, prevs) = Kinds[4]
    BY <2>4, <2>5, KindAt
  <2>7. Parse(Kinds[4], s) = Parse(Kinds[4], x)
    BY <2>3, ParseNames, Zenon
  <2> QED
    BY <1>9, <2>6, <2>7
<1>10. CASE k \in 5..10
  BY <1>10, NumberToken, ZenonT(60)
<1> QED
  BY <1>5, <1>7, <1>8, <1>9, <1>10

\* A prefix at the end of the text is taken for a string whose quote is searched in vain.
LEMMA WordsOnly ==
  ASSUME NEW s \in Seq(Character), \A k \in 1..Len(s) : s[k] \in Word, s \in StrlikePrefixes
  PROVE  MatchesStringLiteral(s) /\ ParseQuoted(s, DoubleQuote) = Throws
<1> DEFINE q == <<DoubleQuote>>
           n == Len(Before(s, q))
<1>1. q \in Seq(Character) /\ q # <<>>
  BY OpeningNames, OpeningFacts, Zenon
<1>2. 1 \in 1..Len(q) /\ q[1] = DoubleQuote
  BY QuotesApart
<1>3. Before(s, q) = s
  <2> SUFFICES ASSUME Before(s, q) # s PROVE FALSE
    OBVIOUS
  <2>1. n \in 0..Len(s) /\ Stands(s, n + 1, q) /\ n < Len(s)
    BY <1>1, BeforeProps
  <2>2. s[n + 1 + 1 - 1] = DoubleQuote
    BY <1>2, <2>1 DEF Stands
  <2> HIDE DEF n, q
  <2>3. n + 1 + 1 - 1 = n + 1 /\ n + 1 \in 1..Len(s)
    BY <2>1
  <2> QED
    BY <2>2, <2>3, QuotesApart
<1>4. MatchesStringLiteral(s)
  <2>1. MatchesQuoted(s, q)
    BY <1>3 DEF MatchesQuoted
  <2> QED
    BY <2>1, OpeningNames, Zenon
<1>5. QuoteEnds(s, Len(s) + 1, DoubleQuote) = {}
  <2>1. Len(s) + 1 + 1..Len(s) = {}
    OBVIOUS
  <2> QED
    BY <2>1 DEF QuoteEnds
<1>6. ParseQuoted(s, DoubleQuote) = Throws
  BY <1>3, <1>5 DEF ParseQuoted
<1> QED
  BY <1>4, <1>6

\* An identifier is taken for itself, but for such a prefix.
LEMMA IdentifierToken ==
  ASSUME NEW s, NEW x, Begins(s, x), x # <<>>, MatchesIdentifier(x), IdentSpan(x) >= Len(x),
         ~HasAt(s, Len(x), Word \cup Quotes), NEW prevs
  PROVE  \/ NextKind(s, prevs) = Kinds[11] /\ IdentSpan(s) >= Len(x) /\ IdentSpan(s) <= Len(x)
         \/ s = x /\ x \in StrlikePrefixes /\ NextKind(s, prevs) = Kinds[2] /\ Parse(Kinds[2], s) = Throws
<1>1. /\ s \in Seq(Character) /\ x \in Seq(Character) /\ Len(x) \in Nat /\ Len(s) \in Nat /\ Len(x) >= 1
      /\ Len(x) <= Len(s) /\ \A k \in 1..Len(x) : s[k] = x[k]
  BY DEF Begins
<1>2. ~HasAt(s, Len(x), Word)
  BY FollowSets
<1>3. /\ MatchesIdentifier(s) /\ ~MatchesBoolLiteral(s) /\ IdentSpan(s) = IdentSpan(x)
  <2>1. IdentSpan(s) = IdentSpan(x) /\ (MatchesIdentifier(s) <=> MatchesIdentifier(x))
    BY <1>2, IdentLocal
  <2>2. MatchesIdentifier(s)
    BY <2>1
  <2>3. ~MatchesBoolLiteral(s)
    BY <2>2, Zenon DEF MatchesIdentifier
  <2> QED
    BY <2>1, <2>2, <2>3
<1>4. /\ IdentSpan(s) >= Len(x) /\ IdentSpan(s) <= Len(x)
      /\ \A k \in 1..Len(x) : x[k] \in Word
      /\ x[1] \in Word \ Digits
  <2>1. IdentSpan(x) \in 0..Len(x) /\ \A k \in 1..IdentSpan(x) : x[k] \in Word
    BY <1>1, IdentProps
  <2>2. IdentSpan(x) > 0 => x[1] \in Word \ Digits
    BY <1>1, IdentProps
  <2> DEFINE n == IdentSpan(x)
             lx == Len(x)
  <2>3. n \in 0..lx /\ lx \in Nat /\ lx >= 1 /\ n >= lx
    BY <1>1, <2>1
  <2> HIDE DEF n, lx
  <2>4. n > 0 /\ n <= lx
    BY <2>3
  <2>5. 1..lx = 1..n
    BY <2>3
  <2> QED
    BY <1>3, <2>1, <2>2, <2>3, <2>4, <2>5 DEF n, lx
<1>5. s[1] = x[1] /\ s # <<>> /\ s[1] \notin Digits /\ s[1] # "."
  <2>1. 1 \in 1..Len(x)
    BY <1>1
  <2> QED
    BY <1>1, <1>4, <2>1, QuotesApart
<1>6. ~NumberMatch(s)
  BY <1>1, <1>5, NotNumber
<1>7. ~Matches(Kinds[1], s, prevs)
  BY <1>3, MatchesNames, Zenon
<1>8. CASE s = x /\ x \in StrlikePrefixes
  <2>1. MatchesStringLiteral(s) /\ ParseQuoted(s, DoubleQuote) = Throws
    <3>1. \A k \in 1..Len(s) : s[k] \in Word
      BY <1>4, <1>8
    <3> QED
      BY <1>1, <1>8, <3>1, WordsOnly
  <2>2. Matches(Kinds[2], s, prevs) /\ Parse(Kinds[2], s) = Throws
    BY <2>1, MatchesNames, ParseNames, Zenon
  <2>3. \A i \in 1..2 - 1 : ~Matches(Kinds[i], s, prevs)
    <3>1. \A i \in 1..2 - 1 : i = 1
      OBVIOUS
    <3> QED
      BY <1>7, <3>1
  <2>4. NextKind(s, prevs) = Kinds[2]
    BY <2>2, <2>3, KindAt
  <2> QED
    BY <1>8, <2>2, <2>4
<1>9. CASE ~(s = x /\ x \in StrlikePrefixes)
  <2>1. \A t \in Openings : ~MatchesQuoted(s, t)
    BY <1>4, <1>9, WordNotQuoted
  <2>2. ~MatchesStringLiteral(s) /\ ~MatchesRawStringLiteral(s) /\ ~MatchesCharLiteral(s)
    BY <2>1, OpeningNames, Zenon
  <2>3. ASSUME NEW i \in 1..10 PROVE ~Matches(Kinds[i], s, prevs)
    <3>1. i = 1 \/ i = 2 \/ i = 3 \/ i = 4 \/ i = 5 \/ i = 6 \/ i = 7 \/ i = 8 \/ i = 9 \/ i = 10
      OBVIOUS
    <3>2. /\ ~Matches(Kinds[1], s, prevs) /\ ~Matches(Kinds[2], s, prevs)
          /\ ~Matches(Kinds[3], s, prevs) /\ ~Matches(Kinds[4], s, prevs)
      BY <1>7, <2>2, MatchesNames, Zenon
    <3>3. /\ ~Matches(Kinds[5], s, prevs) /\ ~Matches(Kinds[6], s, prevs)
          /\ ~Matches(Kinds[7], s, prevs) /\ ~Matches(Kinds[8], s, prevs)
          /\ ~Matches(Kinds[9], s, prevs) /\ ~Matches(Kinds[10], s, prevs)
      BY <1>6, NumberKinds
    <3> QED
      BY <3>1, <3>2, <3>3
  <2>4. Matches(Kinds[11], s, prevs)
    BY <1>3, MatchesNames, Zenon
  <2>5. \A i \in 1..11 - 1 : ~Matches(Kinds[i], s, prevs)
    <3>1. 11 - 1 = 10
      OBVIOUS
    <3> QED
      BY <2>3, <3>1
  <2>6. NextKind(s, prevs) = Kinds[11]
    BY <2>4, <2>5, KindAt
  <2> QED
    BY <1>4, <2>6
<1> QED
  BY <1>8, <1>9

\* An operand is taken for itself and whole, but for a hexadecimal float with a point and
\* for such a prefix, which both throw.
LEMMA OperandToken ==
  ASSUME NEW o, o.str \in Seq(Character) \ {<<>>}, Wellformed(o),
         NEW s, Begins(s, o.str), ~HasAt(s, Len(o.str), Word \cup Quotes),
         o.kind # "Identifier" => ~HasAt(s, Len(o.str), {"."}),
         NEW prevs
  PROVE  \/ /\ NextKind(s, prevs) = o.kind
            /\ \/ /\ Parse(o.kind, s) >= Len(o.str) /\ Parse(o.kind, s) <= Len(o.str)
                  /\ Parse(o.kind, s) \in Nat
               \/ Parse(o.kind, s) = Throws /\ o.kind = "FloatHexLiteral" /\ Fraction(o.str)
         \/ /\ s = o.str /\ o.str \in StrlikePrefixes
            /\ NextKind(s, prevs) = "StringLiteral" /\ Parse("StringLiteral", s) = Throws
<1> DEFINE x == o.str
<1>0. x \in Seq(Character) /\ x # <<>> /\ Len(x) \in Nat
  OBVIOUS
<1>1. CASE o.kind = "Identifier"
  <2>1. MatchesIdentifier(x)
    BY <1>1 DEF Wellformed
  <2>2. Parse(o.kind, x) = Len(x)
    BY <1>1 DEF Wellformed
  <2>3. IdentSpan(x) = Parse(o.kind, x)
    BY <1>1, KindNames, ParseNames
  <2>4. IdentSpan(x) >= Len(x)
    <3> DEFINE lx == Len(x)
    <3>1. IdentSpan(x) = lx /\ lx \in Nat
      BY <1>0, <2>2, <2>3
    <3> HIDE DEF lx
    <3>2. IdentSpan(x) >= lx
      BY <3>1
    <3> QED
      BY <3>2 DEF lx
  <2>5. \/ NextKind(s, prevs) = Kinds[11] /\ IdentSpan(s) >= Len(x) /\ IdentSpan(s) <= Len(x)
        \/ s = x /\ x \in StrlikePrefixes /\ NextKind(s, prevs) = Kinds[2] /\ Parse(Kinds[2], s) = Throws
    BY <1>0, <2>1, <2>4, IdentifierToken
  <2>n. IdentSpan(s) \in Nat
    <3>1. s \in Seq(Character) /\ \A k \in 0..Len(s) : k \in Nat
      BY DEF Begins
    <3> QED
      BY <3>1, IdentProps
  <2>6. IdentSpan(s) = Parse(o.kind, s)
    BY <1>1, KindNames, ParseNames
  <2> QED
    BY <1>1, <2>5, <2>6, <2>n, KindNames
<1>2. CASE o.kind # "Identifier"
  <2>1. o.kind \in Literals /\ NextKind(x, <<>>) = o.kind
    BY <1>2 DEF Wellformed
  <2>2. PICK k \in 1..10 : o.kind = Kinds[k]
    BY <2>1 DEF Literals
  <2>3. Parse(Kinds[k], x) = Len(x) \/ (Parse(Kinds[k], x) = Throws /\ o.kind = "FloatHexLiteral" /\ Fraction(x))
    BY <2>2 DEF Wellformed
  <2>4. k \in 1..4 => o.kind # "FloatHexLiteral"
    BY <2>2 DEF Kinds
  <2>5. k \in 1..4 => Parse(Kinds[k], x) = Len(x)
    BY <2>3, <2>4, Zenon
  <2>6. k = 3 => RawEnds(x) # {}
    BY <2>2, KindNames, Zenon DEF Wellformed
  <2>7. k = 9 => Last(x) \notin {"e", "E"}
    BY <2>2, KindNames, Zenon DEF Wellformed
  <2>8. k = 10 => Last(x) \notin {"p", "P"}
    BY <2>2, KindNames, Zenon DEF Wellformed
  <2>9. ~HasAt(s, Len(x), {"."})
    BY <1>2
  <2>10. NextKind(s, prevs) = Kinds[k] /\ Parse(Kinds[k], s) = Parse(Kinds[k], x)
    BY <1>0, <2>1, <2>2, <2>5, <2>6, <2>7, <2>8, <2>9, LiteralToken
  <2>11. Parse(Kinds[k], x) = Len(x) =>
          Parse(o.kind, s) >= Len(x) /\ Parse(o.kind, s) <= Len(x) /\ Parse(o.kind, s) \in Nat
    <3> DEFINE lx == Len(x)
               pk == Parse(o.kind, s)
    <3>1. Parse(Kinds[k], x) = Len(x) => pk = lx
      BY <2>2, <2>10, Zenon
    <3>2. lx \in Nat
      BY <1>0
    <3> HIDE DEF lx, pk
    <3>3. Parse(Kinds[k], x) = Len(x) => pk >= lx /\ pk <= lx /\ pk \in Nat
      BY <3>1, <3>2
    <3> QED
      BY <3>3 DEF lx, pk
  <2>12. Parse(Kinds[k], x) = Parse(o.kind, s)
    BY <2>2, <2>10
  <2>13. NextKind(s, prevs) = o.kind
    BY <2>2, <2>10
  <2> QED
    BY <2>3, <2>11, <2>12, <2>13, Zenon
<1> QED
  BY <1>1, <1>2

----------------------------------------------------------------------------
(* Operators: the alphabet of operators, and the longest match.            *)

\* Characters by name.
Comma == ","
Dash == "_"

\* The characters of operators and brackets.
Marks == {"+", "-", "*", "/", "%", "<", ">", "=", "!", "&", "|", "^", ":", ".", "?", "~",
          "(", ")", "[", "]", Comma}

\* The characters of the operators that are words.
KeywordCharacters == (Letters \ {"R"}) \cup {Dash}

\* They are no part of words, quotes or blanks.
LEMMA MarkFacts ==
  /\ Marks \subseteq Character /\ Space \in Character /\ KeywordCharacters \subseteq Character
  /\ \A m \in Marks : m \notin Word /\ m \notin Quotes /\ m # Space /\ m \notin {"{", "}"}
  /\ KeywordCharacters \subseteq Word \ Digits /\ "R" \notin KeywordCharacters
  /\ Space \notin Word /\ Space \notin Quotes
<1>1. Marks \subseteq Character
  <2>1. Comma \in Character
    BY Zenon DEF Comma, Character
  <2>2. Marks \ {Comma} \subseteq Character
    BY DEF Marks, Character
  <2> QED
    BY <2>1, <2>2
<1>2. Word = Letters \cup Digits \cup {Dash}
  BY Zenon DEF Word, Dash
<1>3. KeywordCharacters \subseteq Word
  BY <1>2 DEF KeywordCharacters
<1>4. Word \subseteq Character
  BY DEF Character
<1>5. Space \in Character
  BY Zenon DEF Space, Blank, Character
<1>6. \A m \in Marks : m # Dash /\ m # Space /\ m # DoubleQuote /\ m # "'" /\ m \notin {"{", "}"}
  <2>1. \A m \in Marks : m # Dash /\ m # Space /\ m # DoubleQuote
    BY Zenon DEF Marks, Dash, Space, DoubleQuote, Comma
  <2>2. \A m \in Marks : m # "'" /\ m \notin {"{", "}"}
    BY Zenon DEF Marks, Comma
  <2> QED
    BY <2>1, <2>2
<1>7. \A m \in Marks : m \notin Letters /\ m \notin Digits
  <2>1. \A m \in Marks \ {Comma} : m \notin Letters /\ m \notin Digits
    BY DEF Marks, Letters, Digits
  <2>2. Comma \notin Letters /\ Comma \notin Digits
    BY Zenon DEF Comma, Letters, Digits
  <2> QED
    BY <2>1, <2>2
<1>8. Dash \notin Digits /\ "R" # Dash
  BY Zenon DEF Dash, Digits
<1>9. Letters \cap Digits = {}
  BY DEF Letters, Digits
<1>10. KeywordCharacters \subseteq Word \ Digits /\ "R" \notin KeywordCharacters
  BY <1>3, <1>8, <1>9 DEF KeywordCharacters
<1>11. Space \notin Word /\ Space \notin Quotes
  <2>1. Space \notin Letters /\ Space \notin Digits /\ Space # Dash
    BY Zenon DEF Space, Letters, Digits, Dash
  <2>2. Space # DoubleQuote /\ Space # "'"
    BY Zenon DEF Space, DoubleQuote
  <2> QED
    BY <1>2, <2>1, <2>2 DEF Quotes
<1> QED
  BY <1>1, <1>2, <1>3, <1>4, <1>5, <1>6, <1>7, <1>10, <1>11 DEF Quotes

\* Operators by their number of characters.
BinaryOnes == {<<m>> : m \in Marks \ {"!", ":", "?", "~", "(", ")", "[", "]"}}
BinaryTwos ==
  {<<":", ":">>, <<"-", ">">>, <<".", "*">>, <<"<", "<">>, <<">", ">">>, <<"&", "&">>, <<"|", "|">>,
   <<"=", "=">>, <<"!", "=">>, <<"<", "=">>, <<">", "=">>, <<"+", "=">>, <<"-", "=">>, <<"*", "=">>,
   <<"/", "=">>, <<"%", "=">>, <<"&", "=">>, <<"^", "=">>, <<"|", "=">>}
BinaryThrees == {<<"-", ">", "*">>, <<"<", "=", ">">>, <<"<", "<", "=">>, <<">", ">", "=">>}
OtherOnes == {<<m>> : m \in {"(", ")", "[", "]", "+", "-", "~", "!", "*", "&", "?", ":"}}
OtherTwos == {<<"+", "+">>, <<"-", "-">>, <<":", ":">>}

\* The binary operators by length.
LEMMA BinaryForms ==
  BinaryOperators = BinaryOnes \cup BinaryTwos \cup BinaryThrees
<1>1. BinaryOperators =
    {<<":", ":">>, <<Comma>>, <<".">>, <<"-", ">">>, <<".", "*">>, <<"-", ">", "*">>,
     <<"+">>, <<"-">>, <<"*">>, <<"/">>, <<"%">>, <<"<", "<">>, <<">", ">">>,
     <<"^">>, <<"|">>, <<"&">>, <<"&", "&">>, <<"|", "|">>,
     <<"=", "=">>, <<"!", "=">>, <<"<", "=", ">">>, <<"<">>, <<"<", "=">>, <<">">>, <<">", "=">>,
     <<"=">>, <<"+", "=">>, <<"-", "=">>, <<"*", "=">>, <<"/", "=">>, <<"%", "=">>,
     <<"<", "<", "=">>, <<">", ">", "=">>, <<"&", "=">>, <<"^", "=">>, <<"|", "=">>}
  BY Zenon DEF BinaryOperators, Comma
<1>2. /\ Comma # "!" /\ Comma # ":" /\ Comma # "?" /\ Comma # "~"
      /\ Comma # "(" /\ Comma # ")" /\ Comma # "[" /\ Comma # "]"
  BY Zenon DEF Comma
<1>3. Marks \ {"!", ":", "?", "~", "(", ")", "[", "]"} =
        {"+", "-", "*", "/", "%", "<", ">", "=", "&", "|", "^", ".", Comma}
  BY <1>2 DEF Marks
<1>4. BinaryOnes = {<<"+">>, <<"-">>, <<"*">>, <<"/">>, <<"%">>, <<"<">>, <<">">>, <<"=">>, <<"&">>,
                    <<"|">>, <<"^">>, <<".">>, <<Comma>>}
  BY <1>3 DEF BinaryOnes
<1>5. ASSUME NEW op \in BinaryOperators PROVE op \in BinaryOnes \cup BinaryTwos \cup BinaryThrees
  BY <1>1, <1>4 DEF BinaryTwos, BinaryThrees
<1>6. ASSUME NEW op \in BinaryOnes PROVE op \in BinaryOperators
  BY <1>1, <1>4, <1>6
<1>7. ASSUME NEW op \in BinaryTwos PROVE op \in BinaryOperators
  BY <1>1, <1>7 DEF BinaryTwos
<1>8. ASSUME NEW op \in BinaryThrees PROVE op \in BinaryOperators
  BY <1>1, <1>8 DEF BinaryThrees
<1> QED
  BY <1>5, <1>6, <1>7, <1>8

\* The other operators: keywords and short ones.
LEMMA OperatorForms ==
  Operators = Keywords \cup OtherOnes \cup OtherTwos
  BY DEF Operators, OtherOnes, OtherTwos

\* An operator that is no word has one to three marks.
LEMMA MarkForms ==
  ASSUME NEW op \in BinaryOperators \cup OtherOnes \cup OtherTwos
  PROVE  \/ \E a \in Marks : op = <<a>>
         \/ \E a, b \in Marks : op = <<a, b>>
         \/ \E a, b, c \in Marks : op = <<a, b, c>>
<1>1. op \in BinaryOnes => \E a \in Marks : op = <<a>>
  BY DEF BinaryOnes
<1>2. op \in BinaryTwos => \E a, b \in Marks : op = <<a, b>>
  BY DEF BinaryTwos, Marks
<1>3. op \in BinaryThrees => \E a, b, c \in Marks : op = <<a, b, c>>
  <2>1. "-" \in Marks /\ ">" \in Marks /\ "*" \in Marks /\ "<" \in Marks /\ "=" \in Marks
    BY DEF Marks
  <2> QED
    BY <2>1, Zenon DEF BinaryThrees
<1>4. op \in OtherOnes => \E a \in Marks : op = <<a>>
  BY DEF OtherOnes, Marks
<1>5. op \in OtherTwos => \E a, b \in Marks : op = <<a, b>>
  BY DEF OtherTwos, Marks
<1> QED
  BY <1>1, <1>2, <1>3, <1>4, <1>5, BinaryForms, Zenon

\* A text of three characters.
LEMMA Three ==
  ASSUME NEW S, NEW a \in S, NEW b \in S, NEW c \in S, NEW p, p = <<a, b, c>>
  PROVE  /\ p \in Seq(S) /\ p # <<>> /\ p[1] = a /\ p[2] = b /\ p[3] = c
         /\ Len(p) \in Nat /\ 1 <= Len(p) /\ 2 <= Len(p) /\ 3 <= Len(p) /\ Len(p) <= 3
         /\ \A k \in 1..Len(p) : p[k] = a \/ p[k] = b \/ p[k] = c
  OBVIOUS

\* As a text.
LEMMA MarksSpell ==
  ASSUME NEW op \in BinaryOperators \cup OtherOnes \cup OtherTwos
  PROVE  /\ op \in Seq(Marks) /\ op \in Seq(Character) /\ op # <<>>
         /\ Len(op) \in Nat /\ 1 <= Len(op) /\ Len(op) <= 3
         /\ \A k \in 1..Len(op) : op[k] \in Marks
<1>1. /\ op \in Seq(Marks) /\ op # <<>> /\ Len(op) \in Nat /\ 1 <= Len(op) /\ Len(op) <= 3
  <2>1. CASE \E a \in Marks : op = <<a>>
    <3>1. PICK a \in Marks : op = <<a>>
      BY <2>1
    <3>2. op \in Seq(Marks) /\ op # <<>> /\ Len(op) \in Nat /\ 1 <= Len(op) /\ Len(op) <= 1
      BY <3>1, One
    <3> QED
      BY <3>2
  <2>2. CASE \E a, b \in Marks : op = <<a, b>>
    <3>1. PICK a \in Marks, b \in Marks : op = <<a, b>>
      BY <2>2
    <3>2. op \in Seq(Marks) /\ op # <<>> /\ Len(op) \in Nat /\ 1 <= Len(op) /\ Len(op) <= 2
      BY <3>1, Two
    <3> QED
      BY <3>2
  <2>3. CASE \E a, b, c \in Marks : op = <<a, b, c>>
    <3>1. PICK a \in Marks, b \in Marks, c \in Marks : op = <<a, b, c>>
      BY <2>3
    <3> QED
      BY <3>1, Three
  <2> QED
    BY <2>1, <2>2, <2>3, MarkForms
<1>2. op \in Seq(Character)
  <2>1. Marks \subseteq Character
    BY MarkFacts
  <2> QED
    BY <1>1, <2>1
<1> QED
  BY <1>1, <1>2

\* An operator that is a word is one of letters.
LEMMA KeywordsSpell ==
  ASSUME NEW op \in Keywords
  PROVE  /\ op \in Seq(Character) /\ op # <<>> /\ Len(op) \in Nat /\ Len(op) >= 3
         /\ \A k \in 1..Len(op) : op[k] \in Word /\ op[k] # "R"
         /\ op[1] \notin Digits
<1> DEFINE S == KeywordCharacters
<1>1. Keywords =
        {<<"t", "h", "r", "o", "w">>, <<"s", "i", "z", "e", "o", "f">>,
         <<"a", "l", "i", "g", "n", "o", "f">>, <<"n", "e", "w">>,
         <<"d", "e", "l", "e", "t", "e">>,
         <<"c", "o", "n", "s", "t", Dash, "c", "a", "s", "t">>,
         <<"s", "t", "a", "t", "i", "c", Dash, "c", "a", "s", "t">>,
         <<"d", "y", "n", "a", "m", "i", "c", Dash, "c", "a", "s", "t">>,
         <<"r", "e", "i", "n", "t", "e", "r", "p", "r", "e", "t", Dash, "c", "a", "s", "t">>}
  BY Zenon DEF Keywords, Dash
<1>2. {"a", "c", "d", "e", "f", "g", "h", "i", "l", "m", "n", "o", "p", "r", "s", "t", "w", "y", "z"}
        \subseteq Letters \ {"R"}
  BY DEF Letters
<1>3. /\ "a" \in S /\ "c" \in S /\ "d" \in S /\ "e" \in S /\ "f" \in S /\ "g" \in S /\ "h" \in S
      /\ "i" \in S /\ "l" \in S /\ "m" \in S /\ "n" \in S /\ "o" \in S /\ "p" \in S /\ "r" \in S
      /\ "s" \in S /\ "t" \in S /\ "w" \in S /\ "y" \in S /\ "z" \in S /\ Dash \in S
  BY <1>2 DEF KeywordCharacters
<1> HIDE DEF S
<1>4. op = <<"t", "h", "r", "o", "w">> => op \in Seq(S) /\ Len(op) >= 3
  BY <1>3
<1>5. op = <<"s", "i", "z", "e", "o", "f">> => op \in Seq(S) /\ Len(op) >= 3
  BY <1>3
<1>6. op = <<"a", "l", "i", "g", "n", "o", "f">> => op \in Seq(S) /\ Len(op) >= 3
  BY <1>3
<1>7. op = <<"n", "e", "w">> => op \in Seq(S) /\ Len(op) >= 3
  BY <1>3
<1>8. op = <<"d", "e", "l", "e", "t", "e">> => op \in Seq(S) /\ Len(op) >= 3
  BY <1>3
<1>9. op = <<"c", "o", "n", "s", "t", Dash, "c", "a", "s", "t">> => op \in Seq(S) /\ Len(op) >= 3
  BY <1>3
<1>10. op = <<"s", "t", "a", "t", "i", "c", Dash, "c", "a", "s", "t">> => op \in Seq(S) /\ Len(op) >= 3
  BY <1>3
<1>11. op = <<"d", "y", "n", "a", "m", "i", "c", Dash, "c", "a", "s", "t">> => op \in Seq(S) /\ Len(op) >= 3
  BY <1>3
<1>12. op = <<"r", "e", "i", "n", "t", "e", "r", "p", "r", "e", "t", Dash, "c", "a", "s", "t">>
          => op \in Seq(S) /\ Len(op) >= 3
  BY <1>3
<1>13. op \in Seq(S) /\ Len(op) >= 3
  BY <1>1, <1>4, <1>5, <1>6, <1>7, <1>8, <1>9, <1>10, <1>11, <1>12, Zenon
<1>14. \A k \in 1..Len(op) : op[k] \in S
  BY <1>13
<1>15. S \subseteq Word \ Digits /\ "R" \notin S /\ S \subseteq Character
  BY MarkFacts DEF S
<1>16. Len(op) \in Nat /\ 1 \in 1..Len(op)
  BY <1>13
<1>17. op[1] \in S
  BY <1>14, <1>16
<1>18. op \in Seq(Character) /\ op # <<>>
  BY <1>13, <1>15
<1>19. \A k \in 1..Len(op) : op[k] \in Word /\ op[k] # "R"
  BY <1>14, <1>15
<1> QED
  BY <1>13, <1>15, <1>16, <1>17, <1>18, <1>19

\* No operator holds a blank or a quote.
LEMMA PunctuatorsSpell ==
  ASSUME NEW op \in Punctuators
  PROVE  /\ op \in Seq(Character) /\ op # <<>> /\ Len(op) \in Nat /\ 1 <= Len(op)
         /\ op \in Keywords \/ (op \in BinaryOperators \cup OtherOnes \cup OtherTwos)
         /\ \A k \in 1..Len(op) : op[k] # Space /\ op[k] \notin Quotes
<1>1. op \in Keywords \/ (op \in BinaryOperators \cup OtherOnes \cup OtherTwos)
  BY OperatorForms DEF Punctuators
<1>2. CASE op \in Keywords
  <2>1. /\ op \in Seq(Character) /\ op # <<>> /\ Len(op) \in Nat /\ Len(op) >= 3
        /\ \A k \in 1..Len(op) : op[k] \in Word
    BY <1>2, KeywordsSpell
  <2>2. \A w \in Word : w # Space /\ w \notin Quotes
    BY MarkFacts, QuotesApart DEF Quotes
  <2> QED
    BY <1>1, <2>1, <2>2
<1>3. CASE op \in BinaryOperators \cup OtherOnes \cup OtherTwos
  <2>1. /\ op \in Seq(Character) /\ op # <<>> /\ Len(op) \in Nat /\ Len(op) >= 1
        /\ \A k \in 1..Len(op) : op[k] \in Marks
    BY <1>3, MarksSpell
  <2> QED
    BY <1>1, <2>1, MarkFacts
<1> QED
  BY <1>1, <1>2, <1>3

\* IsPrefix and Begins are the same.
LEMMA PrefixBegins ==
  ASSUME NEW y \in Seq(Character), NEW t \in Seq(Character)
  PROVE  IsPrefix(t, y) <=> Begins(y, t)
<1>1. 0 \in 0..Len(y) /\ Past(y, 0) = y
  BY PastZero
<1>2. IsPrefix(t, y) <=> Stands(y, 0 + 1, t)
  BY <1>1, PrefixStands
<1>3. Stands(y, 0 + 1, t) <=> Begins(y, t)
  <2>1. 0 + 1 + Len(t) - 1 = Len(t)
    OBVIOUS
  <2>2. \A k \in 1..Len(t) : 0 + 1 + k - 1 = k
    OBVIOUS
  <2> QED
    BY <2>1, <2>2 DEF Stands, Begins
<1> QED
  BY <1>2, <1>3

\* Munch takes the longest operator the text begins with.
LEMMA MunchIs ==
  ASSUME NEW s \in Seq(Character), NEW ops, \A op \in ops : op \in Seq(Character),
         NEW x \in ops, Begins(s, x), x # <<>>, \A op \in ops : Begins(s, op) => Len(op) <= Len(x)
  PROVE  Munch(s, ops) = x
<1> DEFINE here == {op \in ops : IsPrefix(op, s)}
           c == CHOOSE op \in here : \A other \in here : Len(other) <= Len(op)
<1>1. \A op \in here : op \in ops /\ Begins(s, op) /\ op \in Seq(Character)
  BY PrefixBegins
<1>2. x \in here
  BY PrefixBegins
<1>3. Munch(s, ops) = c
  BY <1>2, Zenon DEF Munch
<1> HIDE DEF here
<1>4. c \in here /\ \A other \in here : Len(other) <= Len(c)
  <2>1. \E op \in here : \A other \in here : Len(other) <= Len(op)
    BY <1>1, <1>2
  <2> QED
    BY <2>1, Zenon
<1> HIDE DEF c
<1>5. /\ c \in Seq(Character) /\ x \in Seq(Character) /\ Len(c) = Len(x)
      /\ \A k \in 1..Len(c) : s[k] = c[k]
      /\ \A k \in 1..Len(x) : s[k] = x[k]
  <2>1. Len(c) <= Len(x) /\ Len(x) <= Len(c) /\ Begins(s, c)
    BY <1>1, <1>2, <1>4
  <2>2. c \in Seq(Character) /\ \A k \in 1..Len(c) : s[k] = c[k]
    BY <2>1 DEF Begins
  <2>3. x \in Seq(Character) /\ \A k \in 1..Len(x) : s[k] = x[k]
    BY DEF Begins
  <2>4. Len(c) \in Nat /\ Len(x) \in Nat
    BY <2>2, <2>3
  <2>5. Len(c) = Len(x)
    BY <2>1, <2>4
  <2> QED
    BY <2>2, <2>3, <2>5, Zenon
<1>6. c = x
  BY <1>5, SeqEqual
<1> QED
  BY <1>3, <1>6

\* It takes nothing where no operator begins.
LEMMA MunchNone ==
  ASSUME NEW s \in Seq(Character), NEW ops, \A op \in ops : op \in Seq(Character) /\ ~Begins(s, op)
  PROVE  Munch(s, ops) = <<>>
<1>1. {op \in ops : IsPrefix(op, s)} = {}
  BY PrefixBegins
<1> QED
  BY <1>1, Zenon DEF Munch

\* What may follow x: the compiler would not read it together with x.
Apart(x, c) ==
  /\ ~(Last(x) \in Word /\ c \in Word)
  /\ ~\E op \in Punctuators : IsPrefix(Append(x, c), op)
Follow(s, x) == Begins(s, x) /\ (Len(x) < Len(s) => Apart(x, s[Len(x) + 1]))

\* A blank never lengthens what stands before it.
LEMMA SpaceApart ==
  ASSUME NEW x \in Seq(Character)
  PROVE  Apart(x, Space)
<1>1. Space \notin Word /\ Space \in Character
  BY MarkFacts
<1>2. ASSUME NEW op \in Punctuators, IsPrefix(Append(x, Space), op) PROVE FALSE
  <2>1. op \in Seq(Character) /\ \A k \in 1..Len(op) : op[k] # Space
    BY PunctuatorsSpell
  <2>2. /\ Append(x, Space) \in Seq(Character) /\ Len(Append(x, Space)) = Len(x) + 1
        /\ Append(x, Space)[Len(x) + 1] = Space /\ Len(x) \in Nat
    BY <1>1
  <2>3. Begins(op, Append(x, Space))
    BY <1>2, <2>1, <2>2, PrefixBegins
  <2>4. Len(x) + 1 \in 1..Len(op) /\ op[Len(x) + 1] = Space
    BY <2>2, <2>3 DEF Begins
  <2> QED
    BY <2>1, <2>4
<1> QED
  BY <1>1, <1>2 DEF Apart

\* What the compiler reads as x is the longest operator there.
LEMMA MaximalMunch ==
  ASSUME NEW s, NEW x, Follow(s, x), NEW op \in Punctuators, Begins(s, op)
  PROVE  Len(op) <= Len(x)
<1> SUFFICES ASSUME ~(Len(op) <= Len(x)) PROVE FALSE
  OBVIOUS
<1> DEFINE c == s[Len(x) + 1]
           xc == Append(x, c)
<1>1. /\ s \in Seq(Character) /\ x \in Seq(Character) /\ op \in Seq(Character)
      /\ Len(x) \in Nat /\ Len(op) \in Nat /\ Len(s) \in Nat /\ Len(op) <= Len(s)
      /\ \A k \in 1..Len(x) : s[k] = x[k]
      /\ \A k \in 1..Len(op) : s[k] = op[k]
  BY DEF Follow, Begins
<1>2. Len(x) < Len(s) /\ Len(x) + 1 <= Len(op) /\ c \in Character
  BY <1>1
<1>3. Apart(x, c)
  BY <1>2 DEF Follow
<1> HIDE DEF c
<1>4. xc \in Seq(Character) /\ Len(xc) = Len(x) + 1 /\ xc[Len(x) + 1] = c
      /\ \A k \in 1..Len(x) : xc[k] = x[k]
  BY <1>1, <1>2
<1> HIDE DEF xc
<1>5. ASSUME NEW k \in 1..Len(xc) PROVE op[k] = xc[k]
  <2>1. k \in 1..Len(x) \/ k = Len(x) + 1
    BY <1>1, <1>4
  <2>2. k \in 1..Len(op)
    BY <1>1, <1>2, <1>4
  <2> QED
    BY <1>1, <1>4, <2>1, <2>2 DEF c
<1>6. Begins(op, xc)
  BY <1>1, <1>2, <1>4, <1>5 DEF Begins
<1>7. IsPrefix(xc, op)
  BY <1>1, <1>4, <1>6, PrefixBegins
<1> QED
  BY <1>3, <1>7 DEF Apart, xc

\* No literal and no identifier is at the start of the text.
NoOperand(s) ==
  /\ ~MatchesBoolLiteral(s) /\ ~MatchesStringLiteral(s) /\ ~MatchesRawStringLiteral(s)
  /\ ~MatchesCharLiteral(s) /\ ~NumberMatch(s) /\ ~MatchesIdentifier(s)

\* None starts with a mark, unless it is the point of a number.
LEMMA MarkNoOperand ==
  ASSUME NEW s \in Seq(Character), s # <<>>, s[1] \in Marks, s[1] = "." => ~HasAt(s, 1, Digits)
  PROVE  NoOperand(s)
<1>1. s[1] \notin Word /\ s[1] \notin Quotes
  BY MarkFacts
<1>2. s[1] \notin Digits
  BY <1>1 DEF Word
<1>3. ~NumberMatch(s)
  BY <1>2, NotNumber
<1>4. ~MatchesStringLiteral(s) /\ ~MatchesRawStringLiteral(s) /\ ~MatchesCharLiteral(s)
  <2>1. \A t \in Openings : ~MatchesQuoted(s, t)
    BY <1>1, QuotedStart
  <2> QED
    BY <2>1, OpeningNames, Zenon
<1>5. IdentSpan(s) = 0
  <2>1. IdentSpan(s) \in 0..Len(s) /\ (IdentSpan(s) > 0 => s[1] \in Word \ Digits)
    BY IdentProps
  <2> QED
    BY <1>1, <2>1
<1>6. Ident(s) = <<>>
  BY <1>5, IdentProps
<1>7. ~MatchesBoolLiteral(s)
  BY <1>6 DEF MatchesBoolLiteral
<1>8. ~MatchesIdentifier(s)
  BY <1>5 DEF MatchesIdentifier
<1> QED
  BY <1>3, <1>4, <1>7, <1>8 DEF NoOperand

\* None starts with an operator that is a word.
LEMMA KeywordNoOperand ==
  ASSUME NEW s, NEW x \in Keywords, Begins(s, x), ~HasAt(s, Len(x), Word)
  PROVE  NoOperand(s)
<1>1. /\ x \in Seq(Character) /\ x # <<>> /\ Len(x) \in Nat /\ Len(x) >= 3
      /\ \A k \in 1..Len(x) : x[k] \in Word /\ x[k] # "R"
      /\ x[1] \notin Digits
  BY KeywordsSpell
<1>2. /\ s \in Seq(Character) /\ Len(s) \in Nat /\ Len(x) <= Len(s)
      /\ \A k \in 1..Len(x) : s[k] = x[k]
  BY DEF Begins
<1>3. s # <<>> /\ s[1] \in Word \ Digits /\ s[1] # "."
  <2>1. 1 \in 1..Len(x)
    BY <1>1
  <2> QED
    BY <1>1, <1>2, <2>1, QuotesApart
<1>4. ~NumberMatch(s)
  BY <1>2, <1>3, NotNumber
<1>5. ASSUME NEW t \in Openings, MatchesQuoted(s, t) PROVE FALSE
  <2> DEFINE b == Before(s, t)
             n == Len(b)
  <2>1. t \in Seq(Character) /\ t # <<>> /\ t[1] \in {DoubleQuote, "'", "R"} /\ 1 \in 1..Len(t)
    BY OpeningFacts, Zenon
  <2>2. n \in 0..Len(s) /\ (Stands(s, n + 1, t) \/ n = Len(s))
    BY <1>2, <2>1, BeforeProps
  <2>3. n <= 2
    <3>1. CASE b = <<>>
      <4>1. n = 0
        BY <3>1
      <4> QED
        BY <4>1
    <3>2. CASE b \in StrlikePrefixes
      <4> HIDE DEF b
      <4>1. \/ b = <<"L">> \/ b = <<"u">> \/ b = <<"U">>
            \/ b = <<"u", "8">> \/ b = <<"U", "8">>
        BY <3>2 DEF StrlikePrefixes
      <4>2. b = <<"L">> \/ b = <<"u">> \/ b = <<"U">> => Len(b) <= 2
        OBVIOUS
      <4>3. b = <<"u", "8">> \/ b = <<"U", "8">> => Len(b) <= 2
        <5>1. "u" \in {"u", "U", "8"} /\ "U" \in {"u", "U", "8"} /\ "8" \in {"u", "U", "8"}
          OBVIOUS
        <5>2. b = <<"u", "8">> => Len(b) <= 2
          BY <5>1, Two
        <5>3. b = <<"U", "8">> => Len(b) <= 2
          BY <5>1, Two
        <5> QED
          BY <5>2, <5>3, Zenon
      <4>4. Len(b) <= 2
        BY <4>1, <4>2, <4>3, Zenon
      <4> QED
        BY <4>4 DEF n
    <3> QED
      BY <1>5, <3>1, <3>2 DEF MatchesQuoted
  <2> HIDE DEF b, n
  <2>4. Stands(s, n + 1, t) /\ n + 1 \in 1..Len(x)
    BY <1>1, <1>2, <2>2, <2>3
  <2>5. s[n + 1] = t[1]
    <3>1. s[n + 1 + 1 - 1] = t[1]
      BY <2>1, <2>4 DEF Stands
    <3>2. n + 1 + 1 - 1 = n + 1
      BY <2>2
    <3> QED
      BY <3>1, <3>2
  <2>6. s[n + 1] \in Word /\ s[n + 1] # "R"
    BY <1>1, <1>2, <2>4
  <2> QED
    BY <2>1, <2>5, <2>6, QuotesApart
<1>6. ~MatchesStringLiteral(s) /\ ~MatchesRawStringLiteral(s) /\ ~MatchesCharLiteral(s)
  BY <1>5, OpeningNames, Zenon
<1>7. Ident(x) = x
  <2>1. IdentSpan(x) = Len(x)
    <3>1. IdentSpan(x) = Span(x, Word)
      <4>1. ~HasAt(x, 0, Digits)
        BY <1>1 DEF HasAt
      <4> QED
        BY <4>1 DEF IdentSpan
    <3>2. ~HasAt(x, Len(x), Word) /\ Len(x) \in 0..Len(x)
      BY <1>1 DEF HasAt
    <3>3. Span(x, Word) = Len(x)
      BY <1>1, <3>2, SpanIs
    <3> QED
      BY <3>1, <3>3, Zenon
  <2>2. Ident(x) = SubSeq(x, 1, Len(x))
    BY <2>1, Zenon DEF Ident
  <2> QED
    BY <1>1, <2>2
<1>8. Ident(s) = x
  BY <1>7, IdentLocal
<1>9. x \in Operators
  BY OperatorForms
<1>10. ~MatchesIdentifier(s)
  BY <1>8, <1>9 DEF MatchesIdentifier
<1>11. ~MatchesBoolLiteral(s)
  <2>1. <<"t", "r", "u", "e">> \notin Keywords /\ <<"f", "a", "l", "s", "e">> \notin Keywords
    BY DEF Keywords
  <2> QED
    BY <1>8, <2>1 DEF MatchesBoolLiteral
<1> QED
  BY <1>4, <1>6, <1>10, <1>11 DEF NoOperand

----------------------------------------------------------------------------
(* An operator is one token, or its first character is taken for a         *)
(* bracket.                                                                *)

\* What is no operand matches none of the first eleven kinds.
LEMMA NoOperandKinds ==
  ASSUME NEW s, NoOperand(s), NEW prevs
  PROVE  \A i \in 1..11 : ~Matches(Kinds[i], s, prevs)
<1> SUFFICES ASSUME NEW i \in 1..11 PROVE ~Matches(Kinds[i], s, prevs)
  OBVIOUS
<1>1. i = 1 \/ i = 2 \/ i = 3 \/ i = 4 \/ i = 5 \/ i = 6 \/ i = 7 \/ i = 8 \/ i = 9 \/ i = 10 \/ i = 11
  OBVIOUS
<1>2. /\ ~Matches(Kinds[1], s, prevs) /\ ~Matches(Kinds[2], s, prevs)
      /\ ~Matches(Kinds[3], s, prevs) /\ ~Matches(Kinds[4], s, prevs)
      /\ ~Matches(Kinds[11], s, prevs)
  <2>1. /\ ~MatchesBoolLiteral(s) /\ ~MatchesStringLiteral(s) /\ ~MatchesRawStringLiteral(s)
        /\ ~MatchesCharLiteral(s) /\ ~MatchesIdentifier(s)
    BY Zenon DEF NoOperand
  <2>2. ~Matches(Kinds[1], s, prevs) /\ ~Matches(Kinds[2], s, prevs)
    BY <2>1, MatchesNames, Zenon
  <2>3. ~Matches(Kinds[3], s, prevs)
    BY <2>1, MatchesNames, Zenon
  <2>4. ~Matches(Kinds[4], s, prevs)
    BY <2>1, MatchesNames, Zenon
  <2>5. ~Matches(Kinds[11], s, prevs)
    BY <2>1, MatchesNames, Zenon
  <2> QED
    BY <2>2, <2>3, <2>4, <2>5
<1>3. /\ ~Matches(Kinds[5], s, prevs) /\ ~Matches(Kinds[6], s, prevs)
      /\ ~Matches(Kinds[7], s, prevs) /\ ~Matches(Kinds[8], s, prevs)
      /\ ~Matches(Kinds[9], s, prevs) /\ ~Matches(Kinds[10], s, prevs)
  <2>1. ~NumberMatch(s)
    BY Zenon DEF NoOperand
  <2> QED
    BY <2>1, NumberKinds
<1> QED
  BY <1>1, <1>2, <1>3

\* A bracket, or the longest operator.
PunctToken(s, prevs, n) ==
  \/ NextKind(s, prevs) = "Grouping" /\ MatchesGrouping(s, prevs) /\ Parse(NextKind(s, prevs), s) = 1
  \/ /\ NextKind(s, prevs) \in {"BinaryOperator", "Operator"} /\ ~MatchesGrouping(s, prevs)
     /\ Parse(NextKind(s, prevs), s) <= n /\ Parse(NextKind(s, prevs), s) >= n
     /\ Parse(NextKind(s, prevs), s) \in Nat

\* The longest operator becomes one token, or its first character a bracket.
LEMMA Punctuation ==
  ASSUME NEW s \in Seq(Character), NoOperand(s), NEW x \in Punctuators, Begins(s, x),
         \A op \in Punctuators : Begins(s, op) => Len(op) <= Len(x),
         x \in BinaryOperators \/ \A op \in BinaryOperators : ~Begins(s, op),
         NEW prevs
  PROVE  PunctToken(s, prevs, Len(x))
<1>1. \A i \in 1..11 : ~Matches(Kinds[i], s, prevs)
  BY NoOperandKinds
<1>2. x # <<>> /\ Len(x) \in Nat /\ \A op \in Punctuators : op \in Seq(Character)
  BY PunctuatorsSpell
<1>3. CASE MatchesGrouping(s, prevs)
  <2>1. Matches(Kinds[12], s, prevs)
    BY <1>3, MatchesNames, Zenon
  <2>2. \A i \in 1..12 - 1 : ~Matches(Kinds[i], s, prevs)
    <3>1. 12 - 1 = 11
      OBVIOUS
    <3> QED
      BY <1>1, <3>1
  <2>3. NextKind(s, prevs) = Kinds[12]
    BY <2>1, <2>2, KindAt
  <2>4. Parse(Kinds[12], s) = 1
    BY ParseNames
  <2> QED
    BY <1>3, <2>3, <2>4, KindNames DEF PunctToken
<1>4. CASE ~MatchesGrouping(s, prevs)
  <2>1. ~Matches(Kinds[12], s, prevs)
    BY <1>4, MatchesNames, Zenon
  <2>2. \A i \in 1..13 - 1 : ~Matches(Kinds[i], s, prevs)
    <3>1. \A i \in 1..13 - 1 : i \in 1..11 \/ i = 12
      OBVIOUS
    <3> QED
      BY <1>1, <2>1, <3>1
  <2>3. x \in BinaryOperators => Munch(s, BinaryOperators) = x
    BY <1>2, MunchIs DEF Punctuators
  <2>4. x \in Operators => Munch(s, Operators) = x
    BY <1>2, MunchIs DEF Punctuators
  <2>5. x \notin BinaryOperators => Munch(s, BinaryOperators) = <<>>
    BY <1>2, MunchNone DEF Punctuators
  <2>6. CASE MatchesBinaryOperator(s, prevs)
    <3>1. NextKind(s, prevs) = Kinds[13]
      <4>1. Matches(Kinds[13], s, prevs)
        BY <2>6, MatchesNames, Zenon
      <4> QED
        BY <2>2, <4>1, KindAt
    <3>2. x \in BinaryOperators
      BY <2>5, <2>6, Zenon DEF MatchesBinaryOperator
    <3>3. Parse(Kinds[13], s) = Len(x)
      BY <2>3, <3>2, ParseNames, Zenon
    <3>4. Parse(Kinds[13], s) >= Len(x) /\ Parse(Kinds[13], s) <= Len(x) /\ Parse(Kinds[13], s) \in Nat
      <4> DEFINE n == Len(x)
      <4>1. Parse(Kinds[13], s) = n /\ n \in Nat
        BY <1>2, <3>3
      <4> HIDE DEF n
      <4>2. Parse(Kinds[13], s) >= n /\ Parse(Kinds[13], s) <= n /\ Parse(Kinds[13], s) \in Nat
        BY <4>1
      <4> QED
        BY <4>2 DEF n
    <3>5. NextKind(s, prevs) = "BinaryOperator"
      BY <3>1, KindNames
    <3> QED
      BY <1>4, <3>1, <3>4, <3>5 DEF PunctToken
  <2>7. CASE ~MatchesBinaryOperator(s, prevs)
    <3>1. x \in Operators
      <4> SUFFICES ASSUME x \notin Operators PROVE FALSE
        OBVIOUS
      <4>1. x \in BinaryOperators
        BY DEF Punctuators
      <4>2. Munch(s, BinaryOperators) = x
        BY <2>3, <4>1
      <4> QED
        BY <1>2, <1>4, <2>7, <4>2, Zenon DEF MatchesBinaryOperator
    <3>2. Munch(s, Operators) = x
      BY <2>4, <3>1
    <3>3. MatchesOperator(s, prevs)
      BY <1>2, <1>4, <2>7, <3>2, Zenon DEF MatchesOperator
    <3>4. NextKind(s, prevs) = Kinds[14]
      <4>1. Matches(Kinds[14], s, prevs) /\ ~Matches(Kinds[13], s, prevs)
        BY <2>7, <3>3, MatchesNames, Zenon
      <4>2. \A i \in 1..14 - 1 : ~Matches(Kinds[i], s, prevs)
        <5>1. \A i \in 1..14 - 1 : i \in 1..13 - 1 \/ i = 13
          OBVIOUS
        <5> QED
          BY <2>2, <4>1, <5>1
      <4> QED
        BY <4>1, <4>2, KindAt
    <3>5. Parse(Kinds[14], s) = Len(x)
      BY <3>2, ParseNames, Zenon
    <3>6. Parse(Kinds[14], s) >= Len(x) /\ Parse(Kinds[14], s) <= Len(x) /\ Parse(Kinds[14], s) \in Nat
      <4> DEFINE n == Len(x)
      <4>1. Parse(Kinds[14], s) = n /\ n \in Nat
        BY <1>2, <3>5
      <4> HIDE DEF n
      <4>2. Parse(Kinds[14], s) >= n /\ Parse(Kinds[14], s) <= n /\ Parse(Kinds[14], s) \in Nat
        BY <4>1
      <4> QED
        BY <4>2 DEF n
    <3>7. NextKind(s, prevs) = "Operator"
      BY <3>4, KindNames
    <3> QED
      BY <1>4, <3>4, <3>6, <3>7 DEF PunctToken
  <2> QED
    BY <2>6, <2>7
<1> QED
  BY <1>3, <1>4

\* An operator of one character, when none longer is there, is binary or no binary operator
\* is there.
LEMMA SingleBinary ==
  ASSUME NEW s \in Seq(Character), NEW x \in Punctuators, Begins(s, x), Len(x) <= 1,
         \A op \in Punctuators : Begins(s, op) => Len(op) <= Len(x)
  PROVE  x \in BinaryOperators \/ \A op \in BinaryOperators : ~Begins(s, op)
<1> SUFFICES ASSUME NEW op \in BinaryOperators, Begins(s, op) PROVE op = x
  OBVIOUS
<1>1. op \in Punctuators
  BY DEF Punctuators
<1>2. /\ op \in Seq(Character) /\ x \in Seq(Character) /\ Len(op) \in Nat /\ 1 <= Len(op)
      /\ Len(x) \in Nat /\ 1 <= Len(x)
  BY <1>1, PunctuatorsSpell
<1>3. Len(op) <= Len(x) /\ Len(x) <= Len(op) /\ Len(op) = Len(x)
  BY <1>1, <1>2
<1>4. \A k \in 1..Len(op) : op[k] = x[k]
  BY <1>2, <1>3 DEF Begins
<1> QED
  BY <1>2, <1>3, <1>4, SeqEqual

\* A text of one mark.
LEMMA OneMark ==
  ASSUME NEW m \in Marks, NEW x, x = <<m>>
  PROVE  /\ x \in Seq(Character) /\ x # <<>> /\ x[1] = m /\ Len(x) \in Nat /\ 1 <= Len(x) /\ Len(x) <= 1
         /\ 1 \in 1..Len(x)
<1>1. m \in Character
  BY MarkFacts
<1> QED
  BY <1>1, One

\* Only four characters are taken for brackets.
LEMMA GroupingStart ==
  ASSUME NEW s, NEW prevs, MatchesGrouping(s, prevs), s[1] \in Marks \cup Word
  PROVE  s[1] \in {"(", ")", "<", ">"}
<1>1. s[1] \notin {"{", "}"}
  <2>1. "{" \notin Word /\ "}" \notin Word
    BY DEF Word, Letters, Digits
  <2> QED
    BY <2>1, MarkFacts
<1> QED
  BY <1>1, Zenon DEF MatchesGrouping

\* An operator or bracket of one character.
LEMMA SingleToken ==
  ASSUME NEW s, NEW m \in Marks \ {"."}, <<m>> \in Punctuators, Follow(s, <<m>>), NEW prevs
  PROVE  PunctToken(s, prevs, 1) /\ s[1] = m
<1> DEFINE x == <<m>>
<1>1. /\ x \in Seq(Character) /\ x # <<>> /\ x[1] = m /\ Len(x) \in Nat /\ 1 <= Len(x) /\ Len(x) <= 1
      /\ 1 \in 1..Len(x)
  BY OneMark
<1>2. x \in Punctuators /\ Follow(s, x)
  OBVIOUS
<1> HIDE DEF x
<1>3. s \in Seq(Character) /\ Begins(s, x) /\ s # <<>> /\ s[1] = m
  BY <1>1, <1>2 DEF Follow, Begins
<1>4. \A op \in Punctuators : Begins(s, op) => Len(op) <= Len(x)
  BY <1>2, MaximalMunch
<1>5. x \in BinaryOperators \/ \A op \in BinaryOperators : ~Begins(s, op)
  BY <1>1, <1>2, <1>3, <1>4, SingleBinary
<1>6. NoOperand(s)
  BY <1>3, MarkNoOperand
<1>7. PunctToken(s, prevs, Len(x))
  BY <1>2, <1>3, <1>4, <1>5, <1>6, Punctuation
<1>9. PunctToken(s, prevs, 1)
  <2> DEFINE n == Len(x)
  <2>1. n \in Nat /\ 1 <= n /\ n <= 1 /\ PunctToken(s, prevs, n)
    BY <1>1, <1>7
  <2> HIDE DEF n
  <2>2. n = 1
    BY <2>1
  <2> QED
    BY <2>1, <2>2
<1> QED
  BY <1>3, <1>9

\* An operator that is a word becomes one token.
LEMMA KeywordToken ==
  ASSUME NEW s, NEW x \in Keywords, Follow(s, x), ~HasAt(s, Len(x), Word), NEW prevs
  PROVE  PunctToken(s, prevs, Len(x)) /\ s[1] = x[1] /\ s[1] \in Word
<1>1. x \in Punctuators
  BY OperatorForms DEF Punctuators
<1>2. /\ x \in Seq(Character) /\ x # <<>> /\ Len(x) \in Nat /\ Len(x) >= 3
      /\ \A k \in 1..Len(x) : x[k] \in Word /\ x[k] # "R"
  BY KeywordsSpell
<1>3. s \in Seq(Character) /\ Begins(s, x)
  BY DEF Follow, Begins
<1>4. \A op \in Punctuators : Begins(s, op) => Len(op) <= Len(x)
  BY <1>1, MaximalMunch
<1>5. s[1] = x[1] /\ s[1] \in Word
  <2>1. 1 \in 1..Len(x)
    BY <1>2
  <2> QED
    BY <1>2, <1>3, <2>1 DEF Begins
<1>6. ASSUME NEW op \in BinaryOperators, Begins(s, op) PROVE FALSE
  <2>1. 1 \in 1..Len(op) /\ op[1] \in Marks
    BY MarksSpell
  <2>2. s[1] = op[1]
    BY <1>6, <2>1 DEF Begins
  <2> QED
    BY <1>5, <2>1, <2>2, MarkFacts
<1>7. NoOperand(s)
  BY <1>3, KeywordNoOperand
<1>8. PunctToken(s, prevs, Len(x))
  BY <1>1, <1>3, <1>4, <1>6, <1>7, Punctuation
<1> QED
  BY <1>5, <1>8

\* A binary operator becomes one token, or its first character a bracket.
LEMMA BinaryToken ==
  ASSUME NEW s, NEW x \in BinaryOperators, Follow(s, x), x[1] = "." => ~HasAt(s, 1, Digits), NEW prevs
  PROVE  PunctToken(s, prevs, Len(x)) /\ s[1] = x[1] /\ s[1] \in Marks
<1>1. x \in Punctuators
  BY DEF Punctuators
<1>2. /\ x \in Seq(Character) /\ x # <<>> /\ Len(x) \in Nat /\ Len(x) >= 1
      /\ \A k \in 1..Len(x) : x[k] \in Marks
  BY MarksSpell
<1>3. s \in Seq(Character) /\ Begins(s, x)
  BY DEF Follow, Begins
<1>4. \A op \in Punctuators : Begins(s, op) => Len(op) <= Len(x)
  BY <1>1, MaximalMunch
<1>5. s[1] = x[1] /\ s[1] \in Marks /\ s # <<>>
  <2>1. 1 \in 1..Len(x)
    BY <1>2
  <2> QED
    BY <1>2, <1>3, <2>1 DEF Begins
<1>6. NoOperand(s)
  BY <1>3, <1>5, MarkNoOperand
<1>7. PunctToken(s, prevs, Len(x))
  BY <1>1, <1>3, <1>4, <1>6, Punctuation
<1> QED
  BY <1>5, <1>7

\* The operators that start like a comparison, or with a dot.
LEMMA RelationalOps ==
  ASSUME NEW op \in Punctuators
  PROVE  /\ op[1] = "=" => op = <<"=">> \/ op = <<"=", "=">>
         /\ op[1] = ">" => op = <<">">> \/ op = <<">", ">">> \/ op = <<">", "=">> \/ op = <<">", ">", "=">>
         /\ op[1] = "<" => \/ op = <<"<">> \/ op = <<"<", "<">> \/ op = <<"<", "=">>
                           \/ op = <<"<", "=", ">">> \/ op = <<"<", "<", "=">>
         /\ op[1] = "." => op = <<".">> \/ op = <<".", "*">>
<1>1. op \in Keywords => op[1] \in Word
  <2> SUFFICES ASSUME op \in Keywords PROVE op[1] \in Word
    OBVIOUS
  <2>1. 1 \in 1..Len(op)
    BY KeywordsSpell
  <2> QED
    BY <2>1, KeywordsSpell
<1>2. "=" \notin Word /\ ">" \notin Word /\ "<" \notin Word /\ "." \notin Word
  BY MarkFacts DEF Marks
<1>3. op \in OtherOnes => op[1] \notin {"=", ">", "<", "."}
  BY DEF OtherOnes
<1>4. op \in OtherTwos => op[1] \notin {"=", ">", "<", "."}
  BY DEF OtherTwos
<1>5. op \in BinaryOnes => /\ op[1] = "=" => op = <<"=">>
                           /\ op[1] = ">" => op = <<">">>
                           /\ op[1] = "<" => op = <<"<">>
                           /\ op[1] = "." => op = <<".">>
  BY DEF BinaryOnes
<1>6. op \in BinaryTwos => /\ op[1] = "=" => op = <<"=", "=">>
                           /\ op[1] = ">" => op = <<">", ">">> \/ op = <<">", "=">>
                           /\ op[1] = "<" => op = <<"<", "<">> \/ op = <<"<", "=">>
                           /\ op[1] = "." => op = <<".", "*">>
  BY DEF BinaryTwos
<1>7. op \in BinaryThrees => /\ op[1] = ">" => op = <<">", ">", "=">>
                             /\ op[1] = "<" => op = <<"<", "=", ">">> \/ op = <<"<", "<", "=">>
                             /\ op[1] # "=" /\ op[1] # "."
  BY DEF BinaryThrees
<1>8. \/ op \in Keywords \/ op \in OtherOnes \/ op \in OtherTwos
      \/ op \in BinaryOnes \/ op \in BinaryTwos \/ op \in BinaryThrees
  BY OperatorForms, BinaryForms DEF Punctuators
<1>9. CASE op \in Keywords
  BY <1>1, <1>2, <1>9
<1>10. CASE op \in OtherOnes \/ op \in OtherTwos
  BY <1>3, <1>4, <1>10
<1>11. CASE op \in BinaryOnes
  BY <1>5, <1>11
<1>12. CASE op \in BinaryTwos
  BY <1>6, <1>12
<1>13. CASE op \in BinaryThrees
  BY <1>7, <1>13
<1> QED
  BY <1>8, <1>9, <1>10, <1>11, <1>12, <1>13

----------------------------------------------------------------------------
(* Operators that start like a comparison, and what is left of one whose   *)
(* start was taken for a bracket.                                          *)

\* Their parts are operators as well.
LEMMA RelationalPunctuators ==
  /\ <<"=">> \in Punctuators /\ <<">">> \in Punctuators /\ <<">", "=">> \in Punctuators
  /\ <<"=">> \in BinaryOperators /\ <<">">> \in BinaryOperators /\ <<">", "=">> \in BinaryOperators
  /\ <<"<">> \in Punctuators /\ <<"(">> \in Punctuators /\ <<")">> \in Punctuators
<1>1. <<"=">> \in BinaryOnes /\ <<">">> \in BinaryOnes /\ <<"<">> \in BinaryOnes
  BY DEF BinaryOnes, Marks
<1>2. <<">", "=">> \in BinaryTwos
  BY DEF BinaryTwos
<1>3. <<"(">> \in OtherOnes /\ <<")">> \in OtherOnes
  BY DEF OtherOnes
<1> QED
  BY <1>1, <1>2, <1>3, BinaryForms, OperatorForms, Zenon DEF Punctuators

\* And marks.
LEMMA RelationalMarks ==
  /\ "=" \in Marks /\ ">" \in Marks /\ "<" \in Marks /\ "." \in Marks
  /\ "(" \in Marks /\ ")" \in Marks
  BY DEF Marks

\* A residue has one or two characters.
LEMMA ResidueFacts ==
  ASSUME NEW r \in Residues
  PROVE  /\ r \in Seq(Character) /\ Len(r) \in Nat /\ 1 <= Len(r) /\ Len(r) <= 2
         /\ r[1] \in {"=", ">"}
         /\ Len(r) > 1 => r[2] \in {"=", ">"} /\ r[2] # r[1] /\ Past(r, 1) = <<r[2]>>
<1>1. "=" \in Character /\ ">" \in Character
  BY DEF Character
<1>2. CASE r = <<"=">>
  BY <1>1, <1>2, One
<1>3. CASE r = <<">">>
  BY <1>1, <1>3, One
<1>4. ASSUME NEW a \in {"=", ">"}, NEW b \in {"=", ">"} \ {a}, r = <<a, b>>
      PROVE  /\ r \in Seq(Character) /\ Len(r) \in Nat /\ 1 <= Len(r) /\ Len(r) <= 2
             /\ r[1] = a /\ r[2] = b /\ Past(r, 1) = <<b>>
  <2>1. a \in Character /\ b \in Character
    BY <1>1
  <2>2. /\ r \in Seq(Character) /\ Len(r) \in Nat /\ 1 <= Len(r) /\ 2 <= Len(r) /\ Len(r) <= 2
        /\ r[1] = a /\ r[2] = b
    BY <1>4, <2>1, Two
  <2>3. Past(r, 1) = <<b>>
    <3>1. 1 \in 0..Len(r)
      BY <2>2
    <3>2. /\ Past(r, 1) \in Seq(Character) /\ Len(Past(r, 1)) = Len(r) - 1
          /\ \A k \in 1..Len(r) - 1 : Past(r, 1)[k] = r[1 + k]
      BY <2>2, <3>1, PastProps
    <3> DEFINE p == Past(r, 1)
               q == <<b>>
    <3>3. q \in Seq(Character) /\ Len(q) \in Nat /\ 1 <= Len(q) /\ Len(q) <= 1 /\ q[1] = b
      BY <2>1, One
    <3> HIDE DEF p, q
    <3>4. Len(p) = Len(q)
      BY <2>2, <3>2, <3>3 DEF p
    <3>5. ASSUME NEW k \in 1..Len(p) PROVE p[k] = q[k]
      <4>1. k = 1 /\ 1 + k = 2 /\ k \in 1..Len(r) - 1
        BY <2>2, <3>2 DEF p
      <4> QED
        BY <2>2, <3>2, <3>3, <4>1 DEF p
    <3>6. p = q
      BY <3>2, <3>3, <3>4, <3>5, SeqEqual DEF p
    <3> QED
      BY <3>6 DEF p, q
  <2> QED
    BY <2>2, <2>3
<1>5. CASE r = <<"=", ">">>
  <2>1. "=" \in {"=", ">"} /\ ">" \in {"=", ">"} \ {"="}
    OBVIOUS
  <2> QED
    BY <1>4, <1>5, <2>1
<1>6. CASE r = <<">", "=">>
  <2>1. ">" \in {"=", ">"} /\ "=" \in {"=", ">"} \ {">"}
    OBVIOUS
  <2> QED
    BY <1>4, <1>6, <2>1
<1> QED
  BY <1>2, <1>3, <1>5, <1>6 DEF Residues

\* A residue is one token, or a token and a shorter residue.
LEMMA ResidueToken ==
  ASSUME NEW s, NEW r \in Residues, Begins(s, r), ~HasAt(s, Len(r), {"=", ">"}), NEW prevs
  PROVE  /\ s[1] \in {"=", ">"}
         /\ \E m \in 1..Len(r) : /\ PunctToken(s, prevs, m)
                                 /\ m < Len(r) => Past(r, m) \in Residues
         /\ Len(r) > 1 => Past(r, 1) \in Residues
<1> DEFINE lr == Len(r)
<1>1. /\ r \in Seq(Character) /\ lr \in Nat /\ 1 <= lr /\ lr <= 2 /\ r[1] \in {"=", ">"}
      /\ lr > 1 => r[2] \in {"=", ">"} /\ r[2] # r[1] /\ Past(r, 1) = <<r[2]>>
  BY ResidueFacts
<1>2. s \in Seq(Character) /\ Len(s) \in Nat /\ lr <= Len(s) /\ \A k \in 1..lr : s[k] = r[k]
  BY DEF Begins
<1>3. lr < Len(s) => s[lr + 1] \notin {"=", ">"}
  BY DEF HasAt
<1>4. lr > 1 => Past(r, 1) \in Residues
  <2>1. \A c \in {"=", ">"} : <<c>> \in Residues
    BY DEF Residues
  <2> QED
    BY <1>1, <2>1
<1> HIDE DEF lr
<1>5. s[1] = r[1] /\ s[1] \in {"=", ">"} /\ s # <<>> /\ (lr > 1 => s[2] = r[2])
  <2>1. 1 \in 1..lr /\ (lr > 1 => 2 \in 1..lr)
    BY <1>1
  <2> QED
    BY <1>1, <1>2, <2>1
<1>6. NoOperand(s)
  <2>1. s[1] \in Marks /\ s[1] # "."
    BY <1>5, RelationalMarks
  <2> QED
    BY <1>2, <1>5, <2>1, MarkNoOperand
<1>7. ASSUME NEW op \in Punctuators, Begins(s, op)
      PROVE  /\ op[1] = s[1] /\ Len(op) <= Len(s) /\ Len(op) \in Nat
             /\ \A k \in 1..Len(op) : s[k] = op[k]
  <2>1. 1 \in 1..Len(op) /\ Len(op) \in Nat
    BY PunctuatorsSpell
  <2> QED
    BY <1>7, <2>1 DEF Begins
<1>8. s[1] = s[2] => lr = 1 /\ ~(2 <= Len(s))
  <2> SUFFICES ASSUME s[1] = s[2] PROVE lr = 1 /\ ~(2 <= Len(s))
    OBVIOUS
  <2>1. ~(lr > 1)
    BY <1>1, <1>5
  <2>2. lr = 1
    BY <1>1, <2>1
  <2>3. ASSUME 2 <= Len(s) PROVE FALSE
    <3>1. lr < Len(s) /\ lr + 1 = 2
      BY <1>2, <2>2, <2>3
    <3>2. s[2] \notin {"=", ">"}
      BY <1>3, <3>1
    <3> QED
      BY <1>5, <3>2
  <2> QED
    BY <2>2, <2>3
<1>9. ASSUME lr = 1 \/ r[1] = "=", NEW op \in Punctuators, Begins(s, op) PROVE Len(op) <= 1
  <2>1. op[1] = s[1] /\ Len(op) <= Len(s) /\ Len(op) \in Nat /\ \A k \in 1..Len(op) : s[k] = op[k]
    BY <1>7, <1>9
  <2> SUFFICES ASSUME ~(Len(op) <= 1) PROVE FALSE
    OBVIOUS
  <2>2. 2 \in 1..Len(op) /\ 2 <= Len(s)
    BY <1>2, <2>1
  <2>3. s[2] = op[2]
    BY <2>1, <2>2
  <2>4. s[1] # s[2]
    BY <1>8, <2>2
  <2>5. CASE lr = 1
    <3>1. s[2] \notin {"=", ">"}
      BY <1>2, <1>3, <2>2, <2>5
    <3>2. op[2] \in {"=", ">"}
      <4>1. op = <<"=">> => Len(op) <= 1
        OBVIOUS
      <4>2. op = <<">">> => Len(op) <= 1
        OBVIOUS
      <4>3. \/ op = <<"=", "=">> \/ op = <<">", ">">> \/ op = <<">", "=">> \/ op = <<">", ">", "=">>
        BY <1>5, <2>1, <4>1, <4>2, RelationalOps
      <4> QED
        BY <4>3
    <3> QED
      BY <2>3, <3>1, <3>2
  <2>6. CASE lr # 1 /\ r[1] = "="
    <3>1. op[1] = "="
      BY <1>5, <2>1, <2>6
    <3>2. op = <<"=">> => Len(op) <= 1
      OBVIOUS
    <3>3. op = <<"=", "=">>
      BY <3>1, <3>2, RelationalOps
    <3> QED
      BY <2>3, <2>4, <3>1, <3>3, <2>1
  <2> QED
    BY <1>9, <2>5, <2>6
<1>10. ASSUME lr = 1 \/ r[1] = "=" PROVE PunctToken(s, prevs, 1)
  <2> DEFINE x == <<s[1]>>
  <2>1. x \in BinaryOperators /\ x \in Punctuators
    BY <1>5, RelationalPunctuators
  <2>2. s[1] \in Marks
    BY <1>5, RelationalMarks
  <2>3. x \in Seq(Character) /\ Len(x) \in Nat /\ 1 <= Len(x) /\ Len(x) <= 1 /\ x[1] = s[1]
    BY <2>2, OneMark
  <2> HIDE DEF x
  <2>4. Begins(s, x)
    <3>1. Len(x) <= Len(s)
      BY <1>1, <1>2, <2>3
    <3>2. \A k \in 1..Len(x) : k = 1
      BY <2>3
    <3> QED
      BY <1>2, <2>3, <3>1, <3>2 DEF Begins
  <2>5. \A op \in Punctuators : Begins(s, op) => Len(op) <= Len(x)
    <3> SUFFICES ASSUME NEW op \in Punctuators, Begins(s, op) PROVE Len(op) <= Len(x)
      OBVIOUS
    <3>1. Len(op) <= 1 /\ Len(op) \in Nat
      BY <1>7, <1>9, <1>10
    <3> QED
      BY <2>3, <3>1
  <2>6. PunctToken(s, prevs, Len(x))
    BY <1>2, <1>6, <2>1, <2>4, <2>5, Punctuation
  <2>7. Len(x) = 1
    <3> DEFINE n == Len(x)
    <3>1. n \in Nat /\ 1 <= n /\ n <= 1
      BY <2>3
    <3> HIDE DEF n
    <3>2. n = 1
      BY <3>1
    <3> QED
      BY <3>2, Zenon DEF n
  <2> QED
    BY <2>6, <2>7, Zenon
<1>11. ASSUME ~(lr = 1 \/ r[1] = "=") PROVE PunctToken(s, prevs, lr)
  <2>1. lr = 2 /\ r[1] = ">" /\ r[2] = "="
    BY <1>1, <1>11
  <2>2. r = <<">", "=">>
    <3>1. \A y : y = <<"=">> \/ y = <<"=", ">">> => y[1] = "="
      OBVIOUS
    <3>2. r = <<">">> => Len(r) <= 1
      OBVIOUS
    <3>3. r # <<">">>
      BY <2>1, <3>2 DEF lr
    <3> QED
      BY <2>1, <3>1, <3>3 DEF Residues
  <2>3. r \in BinaryOperators /\ r \in Punctuators
    BY <2>2, RelationalPunctuators
  <2>4. ASSUME NEW op \in Punctuators, Begins(s, op) PROVE Len(op) <= Len(r)
    <3>1. op[1] = s[1] /\ Len(op) <= Len(s) /\ Len(op) \in Nat /\ \A k \in 1..Len(op) : s[k] = op[k]
      BY <1>7, <2>4
    <3>2. op[1] = ">"
      BY <1>5, <2>1, <3>1
    <3>3. s[1] # s[2]
      BY <1>1, <1>5, <2>1
    <3>4. op # <<">", ">">> /\ op # <<">", ">", "=">>
      <4> SUFFICES ASSUME op = <<">", ">">> \/ op = <<">", ">", "=">> PROVE FALSE
        OBVIOUS
      <4>1. 2 <= Len(op) /\ op[2] = ">"
        OBVIOUS
      <4>2. 2 \in 1..Len(op)
        BY <3>1, <4>1
      <4> QED
        BY <3>1, <3>2, <3>3, <4>1, <4>2
    <3>5. op = <<">">> \/ op = <<">", "=">>
      BY <3>2, <3>4, RelationalOps
    <3>6. op = <<">">> => Len(op) <= 1
      OBVIOUS
    <3>7. op = <<">", "=">> => op = r
      BY <2>2
    <3> QED
      BY <1>1, <3>1, <3>5, <3>6, <3>7 DEF lr
  <2>5. PunctToken(s, prevs, Len(r))
    BY <1>2, <1>6, <2>3, <2>4, Punctuation
  <2> QED
    BY <2>5 DEF lr
<1>12. \E m \in 1..lr : PunctToken(s, prevs, m) /\ (m < lr => Past(r, m) \in Residues)
  <2>1. CASE lr = 1 \/ r[1] = "="
    <3>1. PunctToken(s, prevs, 1) /\ 1 \in 1..lr /\ (1 < lr => Past(r, 1) \in Residues)
      BY <1>1, <1>4, <1>10, <2>1
    <3> QED
      BY <3>1
  <2>2. CASE ~(lr = 1 \/ r[1] = "=")
    <3>1. PunctToken(s, prevs, lr) /\ lr \in 1..lr /\ ~(lr < lr)
      BY <1>1, <1>11, <2>2
    <3> QED
      BY <3>1
  <2> QED
    BY <2>1, <2>2
<1> QED
  BY <1>4, <1>5, <1>12 DEF lr

\* What one character leaves of two.
LEMMA PastTwo ==
  ASSUME NEW a \in Character, NEW b \in Character, NEW x, x = <<a, b>>
  PROVE  Past(x, 1) = <<b>>
<1> DEFINE p == Past(x, 1)
           q == <<b>>
<1>1. x \in Seq(Character) /\ Len(x) \in Nat /\ 2 <= Len(x) /\ Len(x) <= 2 /\ x[2] = b
  BY Two
<1>2. 1 \in 0..Len(x)
  BY <1>1
<1>3. p \in Seq(Character) /\ Len(p) = Len(x) - 1 /\ \A k \in 1..Len(x) - 1 : p[k] = x[1 + k]
  BY <1>1, <1>2, PastProps
<1>4. q \in Seq(Character) /\ Len(q) \in Nat /\ 1 <= Len(q) /\ Len(q) <= 1 /\ q[1] = b
  BY One
<1> HIDE DEF p, q
<1>5. Len(p) = Len(q)
  BY <1>1, <1>3, <1>4
<1>6. ASSUME NEW k \in 1..Len(p) PROVE p[k] = q[k]
  <2>1. k = 1 /\ 1 + k = 2 /\ k \in 1..Len(x) - 1
    BY <1>1, <1>3
  <2> QED
    BY <1>1, <1>3, <1>4, <2>1
<1>7. p = q
  BY <1>3, <1>4, <1>5, <1>6, SeqEqual
<1> QED
  BY <1>7 DEF p, q

\* What one character leaves of three.
LEMMA PastThree ==
  ASSUME NEW a \in Character, NEW b \in Character, NEW c \in Character, NEW x, x = <<a, b, c>>
  PROVE  Past(x, 1) = <<b, c>>
<1> DEFINE p == Past(x, 1)
           q == <<b, c>>
<1>1. x \in Seq(Character) /\ Len(x) \in Nat /\ 3 <= Len(x) /\ Len(x) <= 3 /\ x[2] = b /\ x[3] = c
  BY Three
<1>2. 1 \in 0..Len(x)
  BY <1>1
<1>3. p \in Seq(Character) /\ Len(p) = Len(x) - 1 /\ \A k \in 1..Len(x) - 1 : p[k] = x[1 + k]
  BY <1>1, <1>2, PastProps
<1>4. q \in Seq(Character) /\ Len(q) \in Nat /\ 2 <= Len(q) /\ Len(q) <= 2 /\ q[1] = b /\ q[2] = c
  BY Two
<1> HIDE DEF p, q
<1>5. Len(p) = Len(q)
  BY <1>1, <1>3, <1>4
<1>6. ASSUME NEW k \in 1..Len(p) PROVE p[k] = q[k]
  <2>1. (k = 1 \/ k = 2) /\ k \in 1..Len(x) - 1
    BY <1>1, <1>3
  <2>2. p[k] = x[1 + k]
    BY <1>3, <2>1
  <2>3. k = 1 => 1 + k = 2
    OBVIOUS
  <2>4. k = 2 => 1 + k = 3
    OBVIOUS
  <2> QED
    BY <1>1, <1>4, <2>1, <2>2, <2>3, <2>4
<1>7. p = q
  BY <1>3, <1>4, <1>5, <1>6, SeqEqual
<1> QED
  BY <1>7 DEF p, q

\* A position is never negative.
LEMMA FindNat ==
  ASSUME NEW s \in Seq(Character), NEW t \in Seq(Character)
  PROVE  Find(s, t) \in Nat
<1>1. \A i \in Occurrences(s, t) : i \in Nat /\ 1 <= i
  BY OccurrencesAre DEF Stands
<1>2. CASE Occurrences(s, t) = {}
  BY <1>2 DEF Find, Npos
<1>3. CASE Occurrences(s, t) # {}
  <2> DEFINE S == Occurrences(s, t)
  <2>1. S \in SUBSET Nat /\ S # {} /\ \A i \in S : 1 <= i
    BY <1>1, <1>3
  <2>2. Find(s, t) = Min(S) - 1
    BY <1>3 DEF Find
  <2> HIDE DEF S
  <2>3. Min(S) \in S
    BY <2>1, MinOf
  <2>4. Min(S) \in Nat /\ 1 <= Min(S)
    BY <2>1, <2>3
  <2> QED
    BY <2>2, <2>4
<1> QED
  BY <1>2, <1>3

\* A less-than that another follows does not open a template's arguments.
LEMMA ShiftOpensNothing ==
  ASSUME NEW s \in Seq(Character), 2 <= Len(s), s[2] = "<"
  PROVE  ~OpensTemplate(s)
<1> DEFINE l == <<"<">>
           g == <<">">>
           p == Past(s, 1)
           S == Occurrences(p, l)
<1>1. l \in Seq(Character) /\ g \in Seq(Character) /\ 1 <= Len(l) /\ Len(l) <= 1 /\ l[1] = "<" /\ Len(l) \in Nat
  BY OneMark, RelationalMarks
<1>2. 1 \in 0..Len(s)
  OBVIOUS
<1>3. p \in Seq(Character) /\ Len(p) = Len(s) - 1 /\ \A k \in 1..Len(s) - 1 : p[k] = s[1 + k]
  BY <1>2, PastProps
<1>4. p[1] = "<" /\ 1 <= Len(p)
  <2>1. 1 \in 1..Len(s) - 1 /\ 1 + 1 = 2
    OBVIOUS
  <2> HIDE DEF p
  <2> QED
    BY <1>3, <2>1
<1> HIDE DEF p, l, g
<1>5. Stands(p, 1, l)
  <2>1. 1 + Len(l) - 1 <= Len(p)
    BY <1>1, <1>3, <1>4
  <2>2. \A k \in 1..Len(l) : k = 1 /\ 1 + k - 1 = 1
    BY <1>1
  <2> QED
    BY <1>1, <1>4, <2>1, <2>2 DEF Stands
<1>6. 1 \in S
  BY <1>1, <1>3, <1>5, OccurrencesAre
<1>7. S \in SUBSET Nat /\ \A i \in S : 1 <= i
  BY <1>1, <1>3, OccurrencesAre DEF Stands
<1>8. Find(p, l) = Min(S) - 1
  BY <1>6 DEF Find
<1> HIDE DEF S
<1>9. Min(S) = 1
  BY <1>6, <1>7, MinIs
<1>10. Find(p, l) = 0
  BY <1>8, <1>9
<1>11. Find(s, g) \in Nat
  BY <1>1, FindNat
<1>12. ~(Find(p, l) > Find(s, g))
  BY <1>10, <1>11
<1> QED
  BY <1>12, Zenon DEF OpensTemplate, p, l, g

\* An operator between two operands becomes one token, unless a less-than or a greater-than
\* at its start is taken for a bracket, which leaves a residue.
LEMMA InfixToken ==
  ASSUME NEW s, NEW x \in BinaryOperators \ {<<".", "*">>}, Follow(s, x),
         x[1] = "." => ~HasAt(s, 1, Digits), NEW prevs
  PROVE  /\ PunctToken(s, prevs, Len(x))
         /\ s[1] = x[1] /\ s[1] \in Marks /\ s[1] \notin {"(", ")"}
         /\ MatchesGrouping(s, prevs) => x[1] \in {"<", ">"} /\ (Len(x) > 1 => Past(x, 1) \in Residues)
<1>1. PunctToken(s, prevs, Len(x)) /\ s[1] = x[1] /\ s[1] \in Marks
  BY BinaryToken
<1>2. x[1] \notin {"(", ")"}
  <2>1. x \in BinaryOnes => x[1] \notin {"(", ")"}
    BY DEF BinaryOnes
  <2>2. x \in BinaryTwos => x[1] \notin {"(", ")"}
    BY DEF BinaryTwos
  <2>3. x \in BinaryThrees => x[1] \notin {"(", ")"}
    BY DEF BinaryThrees
  <2>4. x \in BinaryOnes \cup BinaryTwos \cup BinaryThrees
    BY BinaryForms
  <2> QED
    BY <2>1, <2>2, <2>3, <2>4
<1>3. ASSUME MatchesGrouping(s, prevs)
      PROVE  x[1] \in {"<", ">"} /\ (Len(x) > 1 => Past(x, 1) \in Residues)
  <2>1. x[1] \in {"<", ">"}
    BY <1>1, <1>2, <1>3, GroupingStart
  <2>2. "<" \in Character /\ ">" \in Character /\ "=" \in Character
    BY DEF Character
  <2>3. \/ x = <<">">> \/ x = <<">", ">">> \/ x = <<">", "=">> \/ x = <<">", ">", "=">>
        \/ x = <<"<">> \/ x = <<"<", "<">> \/ x = <<"<", "=">>
        \/ x = <<"<", "=", ">">> \/ x = <<"<", "<", "=">>
    <3>1. x \in Punctuators
      BY DEF Punctuators
    <3> QED
      BY <2>1, <3>1, RelationalOps
  <2>4. x # <<"<", "<">> /\ x # <<"<", "<", "=">>
    <3> SUFFICES ASSUME x = <<"<", "<">> \/ x = <<"<", "<", "=">> PROVE FALSE
      OBVIOUS
    <3>1. x[1] = "<" /\ x[2] = "<" /\ 2 <= Len(x)
      OBVIOUS
    <3>2. s \in Seq(Character) /\ Len(x) <= Len(s) /\ Len(x) \in Nat /\ Len(s) \in Nat
          /\ \A k \in 1..Len(x) : s[k] = x[k]
      BY MarksSpell DEF Follow, Begins
    <3>3. 2 <= Len(s) /\ s[2] = "<"
      BY <3>1, <3>2
    <3>4. ~OpensTemplate(s)
      BY <3>2, <3>3, ShiftOpensNothing
    <3>5. s[1] = "<" /\ s[1] # "{" /\ s[1] # "}" /\ s[1] # "(" /\ s[1] # ")" /\ s[1] # ">"
      <4>1. s[1] = "<"
        BY <1>1, <3>1
      <4> QED
        BY <4>1, Zenon
    <3> QED
      BY <1>3, <3>4, <3>5, Zenon DEF MatchesGrouping
  <2>5. x = <<">", ">">> => Past(x, 1) = <<">">>
    BY <2>2, PastTwo
  <2>6. x = <<">", "=">> \/ x = <<"<", "=">> => Past(x, 1) = <<"=">>
    BY <2>2, PastTwo
  <2>7. x = <<">", ">", "=">> => Past(x, 1) = <<">", "=">>
    BY <2>2, PastThree
  <2>8. x = <<"<", "=", ">">> => Past(x, 1) = <<"=", ">">>
    BY <2>2, PastThree
  <2>9. x = <<">">> \/ x = <<"<">> => Len(x) <= 1
    <3>1. \A a : Len(<<a>>) <= 1
      OBVIOUS
    <3> QED
      BY <3>1, Zenon
  <2>10. <<">">> \in Residues /\ <<"=">> \in Residues /\ <<">", "=">> \in Residues /\ <<"=", ">">> \in Residues
    BY DEF Residues
  <2>11. CASE x = <<">">> \/ x = <<"<">>
    <3>1. Len(x) <= 1 /\ Len(x) \in Nat
      BY <2>9, <2>11, MarksSpell
    <3> QED
      BY <2>1, <3>1
  <2>12. CASE ~(x = <<">">> \/ x = <<"<">>)
    <3>1. Past(x, 1) \in Residues
      BY <2>3, <2>4, <2>5, <2>6, <2>7, <2>8, <2>10, <2>12, Zenon
    <3> QED
      BY <2>1, <3>1
  <2> QED
    BY <2>11, <2>12
<1> QED
  BY <1>1, <1>2, <1>3

----------------------------------------------------------------------------
(* The author writes one more lexeme.                                      *)

\* What one more lexeme does to the text.
Grows(w) ==
  /\ phase = "write" /\ phase' = phase /\ UNCHANGED <<pos, tokens, args>>
  /\ w \in Lexeme /\ Proper(w) /\ written' = Append(written, w)
  /\ \/ /\ w.at = Len(text) /\ text' = text \o w.str
        /\ written = <<>> \/ ~Glue(Last(written).str, w.str)
     \/ /\ w.at = Len(text) + 1 /\ text' = Append(text, Space) \o w.str
        /\ written # <<>>

\* What may be written next, one class at a time.
OperandAfter(w) ==
  /\ NeedsOperand /\ (AfterMember \/ InTemplate => w.kind = "Identifier")
  /\ w.class = "operand" /\ open' = open /\ top' = top
PrefixAfter(w) ==
  /\ NeedsOperand /\ ~AfterMember /\ ~InTemplate
  /\ w.class = "prefix" /\ open' = open /\ top' = top
InfixAfter(w) ==
  /\ ~NeedsOperand /\ ~InTemplate /\ (w.str \in Members => AfterCallee)
  /\ w.class = "infix" /\ open' = open
  /\ top' = top \/ (w.str \in Comparisons /\ top' = Len(written) + 1)
GroupAfter(w) ==
  /\ NeedsOperand /\ ~AfterMember /\ ~InTemplate
  /\ w.class = "open" /\ w.str = <<"(">> /\ open' = Append(open, "group") /\ top' = top
CallAfter(w) ==
  /\ AfterCallee /\ ~InTemplate
  /\ w.class = "open" /\ w.str = <<"(">> /\ open' = Append(open, "call") /\ top' = top
TemplateAfter(w) ==
  /\ AfterName /\ ~InTemplate
  /\ w.class = "open" /\ w.str = <<"<">> /\ open' = Append(open, "template") /\ top' = top
CloseAfter(w) ==
  /\ open # <<>> /\ (NeedsOperand => Class = "open" /\ Last(open) = "call")
  /\ w.class = "close" /\ (InTemplate => w.str = <<">">>) /\ (~InTemplate => w.str = <<")">>)
  /\ open' = Front(open) /\ top' = top
After(w) ==
  \/ OperandAfter(w) \/ PrefixAfter(w) \/ InfixAfter(w) \/ GroupAfter(w)
  \/ CallAfter(w) \/ TemplateAfter(w) \/ CloseAfter(w)

\* A sequence over a set is one over a larger set.
LEMMA WiderSequence ==
  ASSUME NEW S, NEW T, S \subseteq T, NEW x \in Seq(S)
  PROVE  x \in Seq(T)
  OBVIOUS

\* What RequirementAssumption says of operands.
LEMMA AssumedOperands ==
  ASSUME NEW o \in Operands
  PROVE  o.str \in Seq(Character) \ {<<>>} /\ o.kind \in KindSet /\ Wellformed(o)
<1>1. o.str \in Seq(STRING) \ {<<>>} /\ Wellformed(o)
  BY RequirementAssumption DEF RequirementAssumption
<1>2. STRING \subseteq Character
  BY DEF Character
<1>3. o.str \in Seq(Character) \ {<<>>}
  BY <1>1, <1>2, WiderSequence
<1>4. o.kind = "Identifier" \/ o.kind \in Literals
  BY <1>1 DEF Wellformed
<1>5. o.kind \in KindSet
  <2>1. "Identifier" = Kinds[11] /\ 11 \in 1..14
    BY KindNames
  <2>2. Literals \subseteq KindSet
    BY DEF Literals, KindSet
  <2> QED
    BY <1>4, <2>1, <2>2 DEF KindSet
<1> QED
  BY <1>1, <1>3, <1>5

\* What it says of operators.
LEMMA AssumedOperators ==
  /\ Unaries \subseteq Keywords \cup {<<"+">>, <<"-">>, <<"~">>, <<"!">>, <<"*">>, <<"&">>}
  /\ Infixes \subseteq BinaryOperators \ {<<".", "*">>}
  BY RequirementAssumption DEF RequirementAssumption

\* Every operator the author writes is an operator of the Tokenizer.
LEMMA AssumedSpelling ==
  /\ \A u \in Unaries : u \in Punctuators /\ u \in Seq(Character) \ {<<>>}
  /\ \A x \in Infixes : x \in Punctuators /\ x \in Seq(Character) \ {<<>>}
<1>1. \A u \in Unaries : u \in Operators
  <2>1. {<<"+">>, <<"-">>, <<"~">>, <<"!">>, <<"*">>, <<"&">>} \subseteq OtherOnes
    BY DEF OtherOnes
  <2> QED
    BY <2>1, AssumedOperators, OperatorForms
<1>2. \A x \in Infixes : x \in BinaryOperators
  BY AssumedOperators
<1>3. \A p \in Punctuators : p \in Seq(Character) \ {<<>>}
  BY PunctuatorsSpell
<1> QED
  BY <1>1, <1>2, <1>3 DEF Punctuators

\* Write adds one lexeme, behind a blank or not.
LEMMA WriteGrows ==
  ASSUME Types, NEW class \in {"operand", "prefix", "infix", "open", "close"}, NEW kind \in KindSet,
         NEW str \in Seq(Character) \ {<<>>},
         Proper([class |-> class, kind |-> kind, str |-> str, at |-> 0]),
         Write(class, kind, str)
  PROVE  \E w : Grows(w) /\ w.class = class /\ w.kind = kind /\ w.str = str
<1> DEFINE apart == /\ written # <<>>
                    /\ \/ spaced /\ "infix" \in {class, Class}
                       \/ Glue(Last(written).str, str)
           before == IF apart THEN Append(text, " ") ELSE text
           w == [class |-> class, kind |-> kind, str |-> str, at |-> Len(before)]
<1>1. phase = "write" /\ written' = Append(written, w) /\ text' = before \o str
      /\ UNCHANGED <<spaced, phase, tokens, pos, args>>
  BY Zenon DEF Write
<1>2. text \in Seq(Character) /\ Space \in Character /\ Len(text) \in Nat
  <2>1. text \in Seq(Character)
    BY DEF Types
  <2>2. Space \in Character
    BY MarkFacts
  <2> QED
    BY <2>1, <2>2
<1>3. before = IF apart THEN Append(text, Space) ELSE text
  BY Zenon DEF Space
<1> HIDE DEF apart, before
<1>4. before \in Seq(Character) /\ Len(before) = IF apart THEN Len(text) + 1 ELSE Len(text)
  BY <1>2, <1>3
<1>5. Len(before) \in Nat
  BY <1>2, <1>4
<1>6. w \in Lexeme
  BY <1>5 DEF Lexeme
<1>7. Proper(w)
  BY DEF Proper
<1>8. w.class = class /\ w.kind = kind /\ w.str = str /\ w.at = Len(before)
  OBVIOUS
<1> HIDE DEF w
<1>9. CASE apart
  <2>1. before = Append(text, Space) /\ w.at = Len(text) + 1 /\ written # <<>>
    BY <1>3, <1>4, <1>8, <1>9 DEF apart
  <2> QED
    BY <1>1, <1>6, <1>7, <1>8, <2>1 DEF Grows
<1>10. CASE ~apart
  <2>1. before = text /\ w.at = Len(text) /\ (written = <<>> \/ ~Glue(Last(written).str, str))
    BY <1>3, <1>4, <1>8, <1>10 DEF apart
  <2> QED
    BY <1>1, <1>6, <1>7, <1>8, <2>1 DEF Grows
<1> QED
  BY <1>9, <1>10

\* Every step of the author adds one lexeme that may stand there.
LEMMA WritingGrows ==
  ASSUME Types, Writing
  PROVE  \E w : Grows(w) /\ After(w)
<1>k. "Operator" \in KindSet /\ "BinaryOperator" \in KindSet /\ "Grouping" \in KindSet
  <2>1. 12 \in 1..14 /\ 13 \in 1..14 /\ 14 \in 1..14
    OBVIOUS
  <2> QED
    BY <2>1, KindNames DEF KindSet
<1>b. \A m \in Marks : <<m>> \in Seq(Character) \ {<<>>}
  BY OneMark
<1>m. <<"(">> \in Seq(Character) \ {<<>>} /\ <<")">> \in Seq(Character) \ {<<>>}
      /\ <<"<">> \in Seq(Character) \ {<<>>} /\ <<">">> \in Seq(Character) \ {<<>>}
  BY <1>b, RelationalMarks
<1>1. CASE WriteOperand
  <2>1. PICK o \in Operands : /\ (AfterMember \/ InTemplate) => o.kind = "Identifier"
                              /\ Write("operand", o.kind, o.str)
    BY <1>1, Zenon DEF WriteOperand
  <2>2. Proper([class |-> "operand", kind |-> o.kind, str |-> o.str, at |-> 0])
    BY DEF Proper
  <2>3. \E w : Grows(w) /\ w.class = "operand" /\ w.kind = o.kind /\ w.str = o.str
    <3> DEFINE d == "operand"
    <3>1. d \in {"operand", "prefix", "infix", "open", "close"}
      OBVIOUS
    <3> QED
      BY <2>1, <2>2, <3>1, AssumedOperands, WriteGrows
  <2>4. NeedsOperand /\ UNCHANGED <<open, top>>
    BY <1>1 DEF WriteOperand
  <2> QED
    BY <2>1, <2>3, <2>4 DEF After, OperandAfter
<1>2. CASE WritePrefix
  <2>1. PICK str \in Unaries : Write("prefix", "Operator", str)
    BY <1>2 DEF WritePrefix
  <2>2. Proper([class |-> "prefix", kind |-> "Operator", str |-> str, at |-> 0])
    BY DEF Proper
  <2>3. \E w : Grows(w) /\ w.class = "prefix" /\ w.kind = "Operator" /\ w.str = str
    BY <1>k, <2>1, <2>2, AssumedSpelling, WriteGrows
  <2>4. NeedsOperand /\ ~AfterMember /\ ~InTemplate /\ UNCHANGED <<open, top>>
    BY <1>2 DEF WritePrefix
  <2> QED
    BY <2>1, <2>3, <2>4 DEF After, PrefixAfter
<1>3. CASE WriteInfix
  <2>1. PICK str \in Infixes :
          /\ str \in Members => AfterCallee
          /\ Write("infix", "BinaryOperator", str)
          /\ top' = IF open = <<>> /\ str \in Comparisons THEN Len(written) + 1 ELSE top
    BY <1>3, Zenon DEF WriteInfix
  <2>2. Proper([class |-> "infix", kind |-> "BinaryOperator", str |-> str, at |-> 0])
    BY DEF Proper
  <2>3. \E w : Grows(w) /\ w.class = "infix" /\ w.kind = "BinaryOperator" /\ w.str = str
    BY <1>k, <2>1, <2>2, AssumedSpelling, WriteGrows
  <2>4. ~NeedsOperand /\ ~InTemplate /\ UNCHANGED open
    BY <1>3 DEF WriteInfix
  <2>5. top' = top \/ (str \in Comparisons /\ top' = Len(written) + 1)
    BY <2>1
  <2> QED
    BY <2>1, <2>3, <2>4, <2>5 DEF After, InfixAfter
<1>4. CASE OpenGroup
  <2> DEFINE str == <<"(">>
  <2>1. Write("open", "Grouping", str)
    BY <1>4 DEF OpenGroup
  <2>2. str \in Seq(Character) \ {<<>>} /\ Proper([class |-> "open", kind |-> "Grouping", str |-> str, at |-> 0])
    BY <1>m DEF Proper
  <2> HIDE DEF str
  <2>3. \E w : Grows(w) /\ w.class = "open" /\ w.kind = "Grouping" /\ w.str = str
    BY <1>k, <2>1, <2>2, WriteGrows
  <2> QED
    BY <1>4, <2>3 DEF str, OpenGroup, After, GroupAfter
<1>5. CASE OpenCall
  <2> DEFINE str == <<"(">>
  <2>1. Write("open", "Operator", str)
    BY <1>5 DEF OpenCall
  <2>2. str \in Seq(Character) \ {<<>>} /\ Proper([class |-> "open", kind |-> "Operator", str |-> str, at |-> 0])
    BY <1>m DEF Proper
  <2> HIDE DEF str
  <2>3. \E w : Grows(w) /\ w.class = "open" /\ w.kind = "Operator" /\ w.str = str
    BY <1>k, <2>1, <2>2, WriteGrows
  <2> QED
    BY <1>5, <2>3 DEF str, OpenCall, After, CallAfter
<1>6. CASE OpenTemplate
  <2> DEFINE str == <<"<">>
  <2>1. Write("open", "Grouping", str)
    BY <1>6 DEF OpenTemplate
  <2>2. str \in Seq(Character) \ {<<>>} /\ Proper([class |-> "open", kind |-> "Grouping", str |-> str, at |-> 0])
    BY <1>m DEF Proper
  <2> HIDE DEF str
  <2>3. \E w : Grows(w) /\ w.class = "open" /\ w.kind = "Grouping" /\ w.str = str
    BY <1>k, <2>1, <2>2, WriteGrows
  <2> QED
    BY <1>6, <2>3 DEF str, OpenTemplate, After, TemplateAfter
<1>7. CASE Close
  <2> DEFINE kind == IF Last(open) = "call" THEN "Operator" ELSE "Grouping"
             str == IF InTemplate THEN <<">">> ELSE <<")">>
  <2>1. Write("close", kind, str)
    BY <1>7, Zenon DEF Close
  <2>2. kind \in KindSet /\ str \in Seq(Character) \ {<<>>}
    BY <1>k, <1>m
  <2>3. (InTemplate => str = <<">">>) /\ (~InTemplate => str = <<")">>)
    OBVIOUS
  <2> HIDE DEF kind, str
  <2>4. Proper([class |-> "close", kind |-> kind, str |-> str, at |-> 0])
    BY <2>3 DEF Proper
  <2>5. \E w : Grows(w) /\ w.class = "close" /\ w.kind = kind /\ w.str = str
    BY <2>1, <2>2, <2>4, WriteGrows
  <2>6. open # <<>> /\ (NeedsOperand => Class = "open" /\ Last(open) = "call")
        /\ open' = Front(open) /\ top' = top
    BY <1>7, Zenon DEF Close
  <2> QED
    BY <2>3, <2>5, <2>6 DEF After, CloseAfter
<1> QED
  BY <1>1, <1>2, <1>3, <1>4, <1>5, <1>6, <1>7 DEF Writing

\* The types, expanded.
LEMMA TypeFacts ==
  ASSUME Types
  PROVE  /\ written \in Seq(Lexeme) /\ Len(written) \in Nat
         /\ open \in Seq({"group", "call", "template"}) /\ Len(open) \in Nat
         /\ text \in Seq(Character) /\ Len(text) \in Nat /\ pos \in Nat
         /\ tokens \in Seq(LexedToken) /\ Len(tokens) \in Nat
         /\ top \in 0..Len(written)
         /\ \A i \in 1..Len(written) : written[i] \in Lexeme /\ Proper(written[i])
  BY DEF Types

\* What a lexeme is.
LEMMA LexemeFacts ==
  ASSUME NEW w \in Lexeme
  PROVE  /\ w.class \in {"operand", "prefix", "infix", "open", "close"} /\ w.kind \in KindSet
         /\ w.str \in Seq(Character) /\ w.str # <<>> /\ w.at \in Nat
         /\ Len(w.str) \in Nat /\ 1 <= Len(w.str)
<1>1. /\ w.class \in {"operand", "prefix", "infix", "open", "close"} /\ w.kind \in KindSet
      /\ w.str \in Seq(Character) \ {<<>>} /\ w.at \in Nat
  BY DEF Lexeme
<1>2. \A x \in Seq(Character) : x # <<>> => Len(x) \in Nat /\ 1 <= Len(x)
  OBVIOUS
<1> QED
  BY <1>1, <1>2

\* The condition with one more lexeme.
LEMMA GrownFacts ==
  ASSUME Types, NEW w, Grows(w)
  PROVE  /\ written' \in Seq(Lexeme) /\ Len(written') = Len(written) + 1
         /\ \A i \in 1..Len(written) : written'[i] = written[i]
         /\ written'[Len(written) + 1] = w
         /\ written' # <<>> /\ w \in Lexeme /\ Proper(w)
<1>1. written \in Seq(Lexeme) /\ w \in Lexeme /\ Proper(w) /\ written' = Append(written, w)
  BY TypeFacts DEF Grows
<1> QED
  BY <1>1

\* The last lexeme, by the operators of Writing.
LEMMA ClassFacts ==
  ASSUME Types
  PROVE  /\ written = <<>> => Class = "none"
         /\ written # <<>> => /\ Class = written[Len(written)].class
                              /\ Last(written) = written[Len(written)] /\ Len(written) >= 1
         /\ AfterMember => /\ written # <<>> /\ written[Len(written)].class = "infix"
                           /\ written[Len(written)].str \in Members
         /\ AfterName => /\ written # <<>> /\ written[Len(written)].class = "operand"
                         /\ written[Len(written)].kind = "Identifier"
         /\ written # <<>> /\ written[Len(written)].class = "infix"
              /\ written[Len(written)].str \in Members => AfterMember
<1>1. written \in Seq(Lexeme)
  BY TypeFacts
<1>2. written # <<>> => Last(written) = written[Len(written)] /\ Len(written) >= 1
  BY <1>1 DEF Last
<1>3. (written = <<>> => Class = "none") /\ (written # <<>> => Class = written[Len(written)].class)
  BY <1>2 DEF Class
<1> QED
  BY <1>2, <1>3 DEF AfterMember, AfterName

\* One more lexeme keeps the types,
LEMMA TypesGrow ==
  ASSUME Types, NEW w, Grows(w), After(w)
  PROVE  Types'
<1> DEFINE N == Len(written)
           B == {"group", "call", "template"}
<1>1. /\ written' \in Seq(Lexeme) /\ Len(written') = N + 1 /\ N \in Nat
      /\ \A i \in 1..N : written'[i] = written[i]
      /\ written'[N + 1] = w /\ w \in Lexeme /\ Proper(w)
  BY GrownFacts, TypeFacts
<1>2. open' \in Seq(B)
  <2>1. open \in Seq(B)
    BY TypeFacts
  <2>2. open' = open \/ open' = Append(open, "group") \/ open' = Append(open, "call")
        \/ open' = Append(open, "template") \/ (open # <<>> /\ open' = Front(open))
    BY DEF After, OperandAfter, PrefixAfter, InfixAfter, GroupAfter, CallAfter, TemplateAfter, CloseAfter
  <2>3. \A b \in B : Append(open, b) \in Seq(B)
    BY <2>1
  <2>4. open # <<>> => Front(open) \in Seq(B)
    <3> SUFFICES ASSUME open # <<>> PROVE Front(open) \in Seq(B)
      OBVIOUS
    <3>1. Len(open) - 1 \in 0..Len(open)
      BY <2>1
    <3> QED
      BY <2>1, <3>1 DEF Front
  <2>5. "group" \in B /\ "call" \in B /\ "template" \in B
    OBVIOUS
  <2> QED
    BY <2>1, <2>2, <2>3, <2>4, <2>5
<1>3. text' \in Seq(Character)
  <2>1. text \in Seq(Character) /\ Space \in Character
    BY TypeFacts, MarkFacts
  <2>2. w.str \in Seq(Character)
    BY <1>1, LexemeFacts
  <2>3. Append(text, Space) \in Seq(Character)
    BY <2>1
  <2>4. text' = text \o w.str \/ text' = Append(text, Space) \o w.str
    BY DEF Grows
  <2>5. \A a, b \in Seq(Character) : a \o b \in Seq(Character)
    OBVIOUS
  <2> QED
    BY <2>1, <2>2, <2>3, <2>4, <2>5, Zenon
<1>4. pos' \in Nat /\ tokens' \in Seq(LexedToken)
      /\ phase' \in {"write", "tokenize", "split", "rejected", "reported", "aborted"}
  BY DEF Types, Grows
<1>5. \A i \in 1..N + 1 : Proper(written'[i])
  <2>1. \A i \in 1..N : Proper(written[i])
    BY TypeFacts
  <2>2. \A i \in 1..N + 1 : i \in 1..N \/ i = N + 1
    BY <1>1
  <2> QED
    BY <1>1, <2>1, <2>2
<1>6. \A i \in 1..N + 1 : Proper(written'[i]) <=> Proper(written[i])'
  OBVIOUS
<1>7. top' = top \/ (w.class = "infix" /\ w.str \in Comparisons /\ top' = N + 1)
  BY DEF After, OperandAfter, PrefixAfter, InfixAfter, GroupAfter, CallAfter, TemplateAfter, CloseAfter
<1>8. /\ top' \in 0..N + 1
      /\ top' # 0 => written'[top'].class = "infix" /\ written'[top'].str \in Comparisons
  <2>1. top \in 0..N /\ (top # 0 => written[top].class = "infix" /\ written[top].str \in Comparisons)
    BY DEF Types
  <2>2. CASE top' = top
    <3>1. top' # 0 => top' \in 1..N
      BY <1>1, <2>1, <2>2
    <3> QED
      BY <1>1, <2>1, <2>2, <3>1
  <2>3. CASE w.class = "infix" /\ w.str \in Comparisons /\ top' = N + 1
    BY <1>1, <2>3
  <2> QED
    BY <1>7, <2>2, <2>3
<1> HIDE DEF B, N
<1> QED
  BY <1>1, <1>2, <1>3, <1>4, <1>5, <1>8 DEF Types, B

\* The text and the place of a new lexeme.
LEMMA TextGrows ==
  ASSUME Types, NEW w, Grows(w)
  PROVE  /\ w.at \in Nat /\ Len(w.str) \in Nat /\ Len(w.str) >= 1 /\ Len(text') = w.at + Len(w.str)
         /\ Len(text) <= w.at
         /\ \A k \in 1..Len(text) : text'[k] = text[k]
         /\ \A k \in 1..Len(w.str) : text'[w.at + k] = w.str[k]
         /\ \/ w.at = Len(text) /\ (written = <<>> \/ ~Glue(Last(written).str, w.str))
            \/ w.at = Len(text) + 1 /\ text'[Len(text) + 1] = Space /\ written # <<>>
<1> DEFINE str == w.str
           at == w.at
<1>1. w \in Lexeme
  BY DEF Grows
<1>2. str \in Seq(Character) /\ at \in Nat /\ Len(str) \in Nat /\ Len(str) >= 1
  BY <1>1, LexemeFacts
<1>3. text \in Seq(Character) /\ Len(text) \in Nat /\ Space \in Character
  BY TypeFacts, MarkFacts
<1>4. \/ at = Len(text) /\ text' = text \o str /\ (written = <<>> \/ ~Glue(Last(written).str, str))
      \/ at = Len(text) + 1 /\ text' = Append(text, Space) \o str /\ written # <<>>
  BY DEF Grows
<1> HIDE DEF str, at
<1>5. CASE at = Len(text) /\ text' = text \o str /\ (written = <<>> \/ ~Glue(Last(written).str, str))
  <2>1. Len(text \o str) = Len(text) + Len(str)
    BY <1>2, <1>3
  <2>2. \A k \in 1..Len(text) : (text \o str)[k] = text[k]
    BY <1>2, <1>3
  <2>3. \A k \in 1..Len(str) : (text \o str)[Len(text) + k] = str[k]
    BY <1>2, <1>3
  <2> QED
    BY <1>2, <1>3, <1>5, <2>1, <2>2, <2>3 DEF str, at
<1>6. CASE at = Len(text) + 1 /\ text' = Append(text, Space) \o str /\ written # <<>>
  <2> DEFINE b == Append(text, Space)
  <2>1. b \in Seq(Character) /\ Len(b) = Len(text) + 1 /\ b[Len(text) + 1] = Space
        /\ \A k \in 1..Len(text) : b[k] = text[k]
    BY <1>3
  <2>2. text' = b \o str
    BY <1>6
  <2> HIDE DEF b
  <2>3. Len(b \o str) = Len(b) + Len(str)
    BY <1>2, <2>1
  <2>4. \A k \in 1..Len(b) : (b \o str)[k] = b[k]
    BY <1>2, <2>1
  <2>5. \A k \in 1..Len(str) : (b \o str)[Len(b) + k] = str[k]
    BY <1>2, <2>1
  <2>6. \A k \in 1..Len(text) : k \in 1..Len(b)
    BY <1>3, <2>1
  <2>7. Len(text) + 1 \in 1..Len(b)
    BY <1>3, <2>1
  <2> QED
    BY <1>2, <1>3, <1>6, <2>1, <2>2, <2>3, <2>4, <2>5, <2>6, <2>7 DEF str, at
<1> QED
  BY <1>4, <1>5, <1>6

\* and where the lexemes stand,
LEMMA PlacedGrow ==
  ASSUME Types, Placed, NEW w, Grows(w)
  PROVE  Placed'
<1> DEFINE N == Len(written)
           T == Len(text)
<1>1. /\ written' \in Seq(Lexeme) /\ Len(written') = N + 1 /\ N \in Nat
      /\ \A i \in 1..N : written'[i] = written[i]
      /\ written'[N + 1] = w /\ w \in Lexeme /\ written' # <<>>
  BY GrownFacts, TypeFacts
<1>2. /\ w.at \in Nat /\ Len(w.str) \in Nat /\ Len(text') = w.at + Len(w.str) /\ T \in Nat
      /\ T <= w.at
      /\ \A k \in 1..T : text'[k] = text[k]
      /\ \A k \in 1..Len(w.str) : text'[w.at + k] = w.str[k]
      /\ \/ w.at = T /\ (written = <<>> \/ ~Glue(Last(written).str, w.str))
         \/ w.at = T + 1 /\ text'[T + 1] = Space /\ written # <<>>
  BY TextGrows, TypeFacts
<1>3. \A i \in 1..N : /\ written[i].at \in Nat /\ Len(written[i].str) \in Nat
                      /\ 1 <= Len(written[i].str)
                      /\ End(written[i]) = written[i].at + Len(written[i].str)
  BY TypeFacts, LexemeFacts DEF End
<1>4. End(w) = w.at + Len(w.str)
  BY DEF End
<1>5. /\ \A i \in 1..N :
           /\ End(written[i]) <= T
           /\ \A k \in 1..Len(written[i].str) : text[written[i].at + k] = written[i].str[k]
           /\ i = 1 => written[i].at = 0
           /\ i = N => End(written[i]) = T
      /\ \A i, j \in 1..N : i < j => End(written[i]) <= written[j].at
      /\ \A i \in 1..N - 1 :
           \/ written[i + 1].at = End(written[i]) + 1 /\ text[End(written[i]) + 1] = Space
           \/ written[i + 1].at = End(written[i]) /\ ~Glue(written[i].str, written[i + 1].str)
      /\ written = <<>> => text = <<>>
  BY DEF Placed
<1>6. N = 0 => written = <<>> /\ T = 0
  <2>1. written \in Seq(Lexeme)
    BY TypeFacts
  <2>2. N = 0 => written = <<>>
    BY <2>1
  <2>3. written = <<>> => text = <<>>
    BY <1>5
  <2>4. text = <<>> => T = 0
    OBVIOUS
  <2> QED
    BY <2>2, <2>3, <2>4
<1>7. N > 0 => Last(written) = written[N]
  BY ClassFacts, <1>1
<1> HIDE DEF N, T
<1>8. ASSUME NEW i \in 1..N + 1
      PROVE  /\ End(written'[i]) <= Len(text')
             /\ \A k \in 1..Len(written'[i].str) : text'[written'[i].at + k] = written'[i].str[k]
             /\ i = 1 => written'[i].at = 0
             /\ i = N + 1 => End(written'[i]) = Len(text')
  <2>1. CASE i \in 1..N
    <3>1. written'[i] = written[i] /\ i # N + 1
      BY <1>1, <2>1
    <3> DEFINE a == written[i].at
               l == Len(written[i].str)
               e == End(written[i])
    <3>4. a \in Nat /\ l \in Nat /\ e = a + l
      BY <1>3, <2>1
    <3>5. e <= T
      BY <1>5, <2>1
    <3>6. T \in Nat /\ T <= Len(text')
      BY <1>2
    <3>2. ASSUME NEW k \in 1..Len(written[i].str) PROVE text'[written[i].at + k] = written[i].str[k]
      <4> HIDE DEF a, e
      <4>1. a + k \in 1..T
        BY <3>4, <3>5, <3>6
      <4> USE DEF a
      <4>2. text'[written[i].at + k] = text[written[i].at + k]
        BY <1>2, <4>1
      <4>3. text[written[i].at + k] = written[i].str[k]
        BY <1>5, <2>1
      <4> QED
        BY <4>2, <4>3
    <3>3. End(written[i]) <= Len(text')
      <4> HIDE DEF a, l, e
      <4>1. e <= Len(text')
        <5> DEFINE T2 == Len(text')
        <5>1. T \in Nat /\ T <= T2 /\ T2 \in Nat /\ e \in Nat /\ e <= T
          BY <1>2, <3>4, <3>5
        <5> HIDE DEF T2
        <5>2. e <= T2
          BY <5>1
        <5> QED
          BY <5>2 DEF T2
      <4> QED
        BY <4>1 DEF e
    <3> HIDE DEF a, l, e
    <3> QED
      BY <1>5, <2>1, <3>1, <3>2, <3>3
  <2>2. CASE i = N + 1
    <3>1. written'[i] = w
      BY <1>1, <2>2
    <3>2. i = 1 => w.at = 0
      <4> SUFFICES ASSUME i = 1 PROVE w.at = 0
        OBVIOUS
      <4>1. N = 0
        BY <1>1, <2>2
      <4> QED
        BY <1>2, <1>6, <4>1
    <3> QED
      BY <1>2, <1>4, <3>1, <3>2
  <2> QED
    BY <1>1, <2>1, <2>2
<1>9. ASSUME NEW i \in 1..N + 1, NEW j \in 1..N + 1, i < j
      PROVE  End(written'[i]) <= written'[j].at
  <2>1. i \in 1..N /\ written'[i] = written[i]
    BY <1>1, <1>9
  <2>2. CASE j \in 1..N
    BY <1>1, <1>5, <1>9, <2>1, <2>2
  <2>3. CASE j = N + 1
    <3>1. written'[j].at = w.at /\ T <= w.at /\ w.at \in Nat /\ T \in Nat
      BY <1>1, <1>2, <2>3
    <3>2. End(written'[i]) <= T
      BY <1>5, <2>1
    <3>3. End(written'[i]) \in Nat
      BY <1>3, <2>1
    <3> QED
      BY <3>1, <3>2, <3>3
  <2> QED
    BY <1>1, <2>2, <2>3
<1>10. ASSUME NEW i \in 1..N + 1 - 1
       PROVE  \/ written'[i + 1].at = End(written'[i]) + 1 /\ text'[End(written'[i]) + 1] = Space
              \/ written'[i + 1].at = End(written'[i]) /\ ~Glue(written'[i].str, written'[i + 1].str)
  <2>1. i \in 1..N /\ written'[i] = written[i]
    BY <1>1
  <2>2. CASE i < N
    <3>1. i \in 1..N - 1 /\ i + 1 \in 1..N
      BY <1>1, <2>1, <2>2
    <3>2. written'[i + 1] = written[i + 1]
      BY <1>1, <3>1
    <3>3. CASE written[i + 1].at = End(written[i]) + 1 /\ text[End(written[i]) + 1] = Space
      <4>1. End(written[i]) + 1 \in 1..T
        <5>1. /\ written[i].at \in Nat /\ Len(written[i].str) \in Nat
              /\ End(written[i]) = written[i].at + Len(written[i].str)
          BY <1>3, <2>1
        <5>2. /\ written[i + 1].at \in Nat
              /\ End(written[i + 1]) = written[i + 1].at + Len(written[i + 1].str)
              /\ Len(written[i + 1].str) \in Nat /\ 1 <= Len(written[i + 1].str)
          BY <1>3, <3>1
        <5>3. End(written[i + 1]) <= T
          BY <1>5, <3>1
        <5>4. T \in Nat /\ written[i + 1].at = End(written[i]) + 1
          BY <1>2, <3>3
        <5>5. \A u, a, l \in Nat : a = u + 1 /\ 1 <= l /\ a + l <= T => u + 1 \in 1..T
          BY <5>4
        <5>6. End(written[i]) \in Nat /\ written[i + 1].at + Len(written[i + 1].str) <= T
          BY <5>1, <5>2, <5>3
        <5> QED
          BY <5>2, <5>4, <5>5, <5>6, Zenon
      <4> QED
        BY <1>2, <2>1, <3>2, <3>3, <4>1
    <3>4. CASE written[i + 1].at = End(written[i]) /\ ~Glue(written[i].str, written[i + 1].str)
      BY <2>1, <3>2, <3>4
    <3> QED
      BY <1>5, <3>1, <3>3, <3>4
  <2>3. CASE i = N
    <3>1. written'[i + 1] = w /\ End(written[i]) = T /\ N > 0
      BY <1>1, <1>5, <2>1, <2>3
    <3>2. Last(written) = written[i] /\ written # <<>>
      BY <1>7, <2>3, <3>1, ClassFacts DEF N
    <3> QED
      BY <1>2, <2>1, <3>1, <3>2
  <2> QED
    BY <1>1, <2>1, <2>2, <2>3
<1>11. /\ \A i \in 1..Len(written') :
           /\ End(written'[i]) <= Len(text')
           /\ \A k \in 1..Len(written'[i].str) : text'[written'[i].at + k] = written'[i].str[k]
           /\ i = 1 => written'[i].at = 0
           /\ i = Len(written') => End(written'[i]) = Len(text')
       /\ \A i, j \in 1..Len(written') : i < j => End(written'[i]) <= written'[j].at
       /\ \A i \in 1..Len(written') - 1 :
           \/ written'[i + 1].at = End(written'[i]) + 1 /\ text'[End(written'[i]) + 1] = Space
           \/ written'[i + 1].at = End(written'[i]) /\ ~Glue(written'[i].str, written'[i + 1].str)
       /\ written' # <<>>
  BY <1>1, <1>8, <1>9, <1>10
<1> QED
  BY <1>11 DEF Placed

\* A sequence without its last element.
LEMMA FrontFacts ==
  ASSUME NEW S, NEW s \in Seq(S), s # <<>>
  PROVE  /\ Len(s) \in Nat /\ Len(s) >= 1 /\ Len(Front(s)) = Len(s) - 1
         /\ \A k \in 1..Len(s) - 1 : Front(s)[k] = s[k]
<1>1. Len(s) \in Nat /\ Len(s) >= 1
  OBVIOUS
<1> DEFINE n == Len(s) - 1
<1>2. n \in Nat /\ \A i \in 1..n : i \in 1..Len(s) /\ s[i] \in S
  BY <1>1
<1>3. Front(s) = SubSeq(s, 1, n)
  BY DEF Front
<1>4. /\ Len(SubSeq(s, 1, n)) = IF 1 <= n THEN n - 1 + 1 ELSE 0
      /\ \A i \in 1..n - 1 + 1 : SubSeq(s, 1, n)[i] = s[1 + i - 1]
  BY <1>2, SubSeqProperties
<1>5. Len(SubSeq(s, 1, n)) = n
  <2> DEFINE l == Len(SubSeq(s, 1, n))
  <2>1. l = IF 1 <= n THEN n - 1 + 1 ELSE 0
    BY <1>4
  <2> HIDE DEF l, n
  <2>2. l = n
    BY <1>2, <2>1
  <2> QED
    BY <2>2 DEF l
<1>6. \A i \in 1..n : SubSeq(s, 1, n)[i] = s[i]
  <2>1. \A i \in 1..n : i \in 1..n - 1 + 1 /\ 1 + i - 1 = i
    BY <1>2
  <2> QED
    BY <1>4, <2>1
<1> QED
  BY <1>1, <1>3, <1>5, <1>6

\* What may be written depends on the last lexeme and the innermost bracket.
LEMMA AfterFacts ==
  ASSUME Types, NEW w, Grows(w), After(w)
  PROVE  /\ written = <<>> => /\ w.class \in {"operand", "prefix", "open"}
                              /\ w.class = "open" => w.str = <<"(">>
         /\ written # <<>> => Neighbours(Last(written), w)
         /\ InTemplate /\ written # <<>> /\ Class = "open" => w.class = "operand" /\ open' = open
         /\ InTemplate /\ written # <<>> /\ Class = "operand" =>
              w.class = "close" /\ w.str = <<">">>
         /\ InTemplate => \/ w.class = "operand" /\ open' = open
                          \/ w.class = "close" /\ open' = Front(open)
         /\ \/ /\ open' = open /\ w.class \notin {"open", "close"}
            \/ /\ \E b \in {"group", "call"} : open' = Append(open, b)
               /\ ~InTemplate /\ w.class = "open" /\ w.str = <<"(">>
            \/ /\ open' = Append(open, "template") /\ ~InTemplate
               /\ w.class = "open" /\ w.str = <<"<">>
            \/ /\ open # <<>> /\ open' = Front(open) /\ w.class = "close"
               /\ (InTemplate => w.str = <<">">>) /\ (~InTemplate => w.str = <<")">>)
<1>1. /\ written = <<>> => Class = "none"
      /\ written # <<>> => Class = Last(written).class
  BY DEF Class
<1>2. <<"(">> # <<"<">> /\ <<")">> # <<">">>
  OBVIOUS
<1> DEFINE p == <<"(">>
           l == <<"<">>
           g == <<">">>
           c == <<")">>
<1>3. p # l /\ c # g
  BY <1>2
<1> HIDE DEF p, l, g, c
<1>4. /\ OperandAfter(w) <=> /\ NeedsOperand /\ (AfterMember \/ InTemplate => w.kind = "Identifier")
                             /\ w.class = "operand" /\ open' = open /\ top' = top
      /\ GroupAfter(w) <=> /\ NeedsOperand /\ ~AfterMember /\ ~InTemplate
                           /\ w.class = "open" /\ w.str = p /\ open' = Append(open, "group") /\ top' = top
      /\ CallAfter(w) <=> /\ AfterCallee /\ ~InTemplate
                          /\ w.class = "open" /\ w.str = p /\ open' = Append(open, "call") /\ top' = top
      /\ TemplateAfter(w) <=> /\ AfterName /\ ~InTemplate
                              /\ w.class = "open" /\ w.str = l /\ open' = Append(open, "template") /\ top' = top
      /\ CloseAfter(w) <=> /\ open # <<>> /\ (NeedsOperand => Class = "open" /\ Last(open) = "call")
                           /\ w.class = "close" /\ (InTemplate => w.str = g) /\ (~InTemplate => w.str = c)
                           /\ open' = Front(open) /\ top' = top
  BY Zenon DEF OperandAfter, GroupAfter, CallAfter, TemplateAfter, CloseAfter, p, l, g, c
<1>5. InTemplate => Last(open) = "template"
  BY DEF InTemplate
<1>6. /\ NeedsOperand <=> Class \in {"none", "prefix", "infix", "open"}
      /\ AfterMember <=> Class = "infix" /\ Last(written).str \in Members
      /\ AfterName <=> Class = "operand" /\ Last(written).kind = "Identifier"
      /\ AfterCallee <=> AfterName \/ Class = "close"
  BY DEF NeedsOperand, AfterMember, AfterName, AfterCallee
<1>7. /\ written = <<>> => /\ w.class \in {"operand", "prefix", "open"}
                           /\ w.class = "open" => w.str = p
      /\ InTemplate /\ written # <<>> /\ Class = "open" => w.class = "operand" /\ open' = open
      /\ InTemplate /\ written # <<>> /\ Class = "operand" => w.class = "close" /\ w.str = g
      /\ InTemplate => \/ w.class = "operand" /\ open' = open
                       \/ w.class = "close" /\ open' = Front(open)
  <2> DEFINE empty == written = <<>>
             last == Last(open)
  <2>1. (empty => Class = "none") /\ (InTemplate => last = "template")
    BY <1>1, <1>5
  <2>2. CloseAfter(w) => /\ NeedsOperand => Class = "open" /\ last = "call"
                         /\ w.class = "close" /\ (InTemplate => w.str = g) /\ open' = Front(open)
    BY <1>4
  <2>3. /\ OperandAfter(w) => NeedsOperand /\ w.class = "operand" /\ open' = open
        /\ GroupAfter(w) => NeedsOperand /\ ~InTemplate /\ w.class = "open" /\ w.str = p
        /\ CallAfter(w) => AfterCallee /\ ~InTemplate
        /\ TemplateAfter(w) => AfterName /\ ~InTemplate
    BY <1>4
  <2> HIDE DEF empty, last
  <2>4. empty => /\ w.class \in {"operand", "prefix", "open"}
                 /\ w.class = "open" => w.str = p
    BY <1>6, <2>1, <2>2, <2>3 DEF After, PrefixAfter, InfixAfter
  <2>5. InTemplate /\ Class = "open" => w.class = "operand" /\ open' = open
    BY <1>6, <2>1, <2>2, <2>3 DEF After, PrefixAfter, InfixAfter
  <2>6. InTemplate /\ Class = "operand" => w.class = "close" /\ w.str = g
    BY <1>6, <2>1, <2>2, <2>3 DEF After, PrefixAfter, InfixAfter
  <2>7. InTemplate => \/ w.class = "operand" /\ open' = open
                      \/ w.class = "close" /\ open' = Front(open)
    <3>1. InTemplate => OperandAfter(w) \/ CloseAfter(w)
      BY <2>3 DEF After, PrefixAfter, InfixAfter
    <3>2. OperandAfter(w) => w.class = "operand" /\ open' = open
      BY <2>3
    <3>3. CloseAfter(w) => w.class = "close" /\ open' = Front(open)
      BY <2>2
    <3> QED
      BY <3>1, <3>2, <3>3
  <2> QED
    BY <2>4, <2>5, <2>6, <2>7, Zenon DEF empty
<1>8. \/ /\ open' = open /\ w.class \notin {"open", "close"}
      \/ /\ \E b \in {"group", "call"} : open' = Append(open, b)
         /\ ~InTemplate /\ w.class = "open" /\ w.str = p
      \/ /\ open' = Append(open, "template") /\ ~InTemplate
         /\ w.class = "open" /\ w.str = l
      \/ /\ open # <<>> /\ open' = Front(open) /\ w.class = "close"
         /\ (InTemplate => w.str = g) /\ (~InTemplate => w.str = c)
  BY <1>4 DEF After, PrefixAfter, InfixAfter
<1>9. ASSUME written # <<>> PROVE Neighbours(Last(written), w)
  <2> DEFINE u == Last(written)
  <2>1. Class = u.class
    BY <1>1, <1>9
  <2>2. AfterMember <=> Class = "infix" /\ u.str \in Members
    BY <1>6
  <2>3. AfterName <=> Class = "operand" /\ u.kind = "Identifier"
    BY <1>6
  <2> HIDE DEF u
  <2>4. u.class = "operand" =>
          /\ w.class \in {"infix", "open", "close"}
          /\ w.class = "infix" /\ w.str \in Members => u.kind = "Identifier"
    BY <1>4, <1>6, <2>1, <2>3 DEF After, PrefixAfter, InfixAfter
  <2>5. u.class = "infix" =>
          /\ w.class \in {"operand", "prefix"} \/ (w.class = "open" /\ w.str = p)
          /\ u.str \in Members => w.class = "operand" /\ w.kind = "Identifier"
    BY <1>4, <1>6, <2>1, <2>2, <2>3 DEF After, PrefixAfter, InfixAfter
  <2> QED
    BY <2>4, <2>5, Zenon DEF Neighbours, u, p
<1> QED
  BY <1>7, <1>8, <1>9, Zenon DEF p, l, g, c

\* Who may stand next to whom is kept,
LEMMA AdjacentGrow ==
  ASSUME Types, Adjacent, NEW w, Grows(w), After(w)
  PROVE  Adjacent'
<1> DEFINE N == Len(written)
           p == <<"(">>
<1>1. /\ Len(written') = N + 1 /\ N \in Nat /\ \A i \in 1..N : written'[i] = written[i]
      /\ written'[N + 1] = w
  BY GrownFacts, TypeFacts
<1>2. /\ written = <<>> => w.class \in {"operand", "prefix", "open"} /\ (w.class = "open" => w.str = p)
      /\ written # <<>> => Neighbours(Last(written), w)
  BY AfterFacts
<1>3. written # <<>> => Last(written) = written[N] /\ N >= 1
  BY ClassFacts
<1>4. written = <<>> => N <= 0
  OBVIOUS
<1>5. /\ \A i \in 1..N - 1 : Neighbours(written[i], written[i + 1])
      /\ written # <<>> => /\ written[1].class \in {"operand", "prefix", "open"}
                           /\ written[1].class = "open" => written[1].str = p
  BY DEF Adjacent
<1>6. phase' = "write"
  BY DEF Grows
<1> HIDE DEF N, p
<1>7. ASSUME NEW i \in 1..N + 1 - 1 PROVE Neighbours(written'[i], written'[i + 1])
  <2>1. CASE i < N
    <3>1. i \in 1..N - 1 /\ i \in 1..N /\ i + 1 \in 1..N
      BY <1>1, <2>1
    <3> QED
      BY <1>1, <1>5, <3>1
  <2>2. CASE i = N
    <3>1. N >= 1 /\ written # <<>> /\ N \in 1..N
      BY <1>1, <1>4, <2>2
    <3>2. written'[N] = written[N] /\ written'[N + 1] = w
      BY <1>1, <3>1
    <3> QED
      BY <1>2, <1>3, <2>2, <3>1, <3>2
  <2> QED
    BY <1>1, <2>1, <2>2
<1>8. /\ written'[1].class \in {"operand", "prefix", "open"}
      /\ written'[1].class = "open" => written'[1].str = p
  <2>1. CASE written = <<>>
    <3>1. N + 1 = 1
      BY <1>1, <1>4, <2>1
    <3>2. written'[1] = w
      BY <1>1, <3>1
    <3> QED
      BY <1>2, <2>1, <3>2
  <2>2. CASE written # <<>>
    <3>1. 1 \in 1..N
      BY <1>1, <1>3, <2>2
    <3> QED
      BY <1>1, <1>5, <2>2, <3>1
  <2> QED
    BY <2>1, <2>2
<1>9. \A i \in 1..Len(written') - 1 : Neighbours(written'[i], written'[i + 1])
  BY <1>1, <1>7
<1>10. \A i \in 1..Len(written') - 1 : Neighbours(written[i], written[i + 1])'
  BY <1>9 DEF Neighbours
<1> QED
  BY <1>6, <1>8, <1>10, Zenon DEF Adjacent, p

\* and template arguments are.
LEMMA TemplatesGrow ==
  ASSUME Types, Templates, NEW w, Grows(w), After(w)
  PROVE  Templates'
<1> DEFINE N == Len(written)
           K == Len(open)
           g == <<">">>
           l == <<"<">>
           p == <<"(">>
           B == {"group", "call", "template"}
           opens(v) == v.class = "open" /\ v.str = l
           closes(v) == v.class = "close" /\ v.str = g
<1>1. /\ Len(written') = N + 1 /\ N \in Nat /\ \A i \in 1..N : written'[i] = written[i]
      /\ written'[N + 1] = w
  BY GrownFacts, TypeFacts
<1>2. /\ InTemplate /\ written # <<>> /\ Class = "open" => w.class = "operand" /\ open' = open
      /\ InTemplate /\ written # <<>> /\ Class = "operand" => closes(w)
      /\ InTemplate => \/ w.class = "operand" /\ open' = open
                       \/ w.class = "close" /\ open' = Front(open)
  BY AfterFacts
<1>3. \/ /\ open' = open /\ w.class \notin {"open", "close"}
      \/ /\ \E b \in {"group", "call"} : open' = Append(open, b)
         /\ ~InTemplate /\ w.class = "open" /\ w.str = p
      \/ /\ open' = Append(open, "template") /\ ~InTemplate /\ opens(w)
      \/ /\ open # <<>> /\ open' = Front(open) /\ w.class = "close"
  BY AfterFacts
<1>4. written # <<>> => Class = written[N].class /\ N >= 1
  BY ClassFacts
<1>5. written = <<>> => N <= 0
  OBVIOUS
<1>6. p # l
  <2>1. p[1] # l[1]
    OBVIOUS
  <2> QED
    BY <2>1
<1>7. open \in Seq(B) /\ K \in Nat
  BY TypeFacts
<1>8. InTemplate => K >= 1 /\ open[K] = "template"
  BY <1>7 DEF InTemplate, Last
<1>9. K >= 1 /\ open[K] = "template" => InTemplate
  <2>1. K >= 1 => open # <<>>
    BY <1>7
  <2> QED
    BY <2>1 DEF InTemplate, Last
<1>10. /\ \A i \in 1..N : opens(written[i]) =>
            /\ i + 1 <= N => written[i + 1].class = "operand"
            /\ i + 2 <= N => closes(written[i + 2])
            /\ i + 2 > N => InTemplate
       /\ InTemplate => \E i \in 1..N : opens(written[i]) /\ i + 2 > N
       /\ \A k \in 1..K - 1 : open[k] # "template"
  BY DEF Templates, IsOpenTemplate
<1> DEFINE K2 == Len(open')
           In2 == InTemplate'
<1>11. In2 <=> open' # <<>> /\ Last(open') = "template"
  BY DEF InTemplate
<1>12. /\ K2 \in Nat
       /\ \/ open' = open /\ K2 = K /\ \A k \in 1..K : open'[k] = open[k]
          \/ /\ K2 = K + 1 /\ \A k \in 1..K : open'[k] = open[k]
             /\ open'[K + 1] \in {"group", "call"} /\ ~InTemplate /\ w.class = "open" /\ w.str = p
          \/ /\ K2 = K + 1 /\ (\A k \in 1..K : open'[k] = open[k])
             /\ open'[K + 1] = "template" /\ ~InTemplate /\ opens(w)
          \/ K2 = K - 1 /\ (\A k \in 1..K - 1 : open'[k] = open[k]) /\ w.class = "close"
  <2>1. CASE open' = open /\ w.class \notin {"open", "close"}
    BY <1>7, <2>1
  <2>2. CASE /\ \E b \in {"group", "call"} : open' = Append(open, b)
             /\ ~InTemplate /\ w.class = "open" /\ w.str = p
    <3>1. PICK b \in {"group", "call"} : open' = Append(open, b)
      BY <2>2
    <3>2. Len(Append(open, b)) = K + 1 /\ Append(open, b)[K + 1] = b
          /\ \A k \in 1..K : Append(open, b)[k] = open[k]
      BY <1>7
    <3> QED
      BY <1>7, <2>2, <3>1, <3>2
  <2>3. CASE open' = Append(open, "template") /\ ~InTemplate /\ opens(w)
    <3>2. Len(Append(open, "template")) = K + 1 /\ Append(open, "template")[K + 1] = "template"
          /\ \A k \in 1..K : Append(open, "template")[k] = open[k]
      BY <1>7
    <3> QED
      BY <1>7, <2>3, <3>2
  <2>4. CASE open # <<>> /\ open' = Front(open) /\ w.class = "close"
    <3>1. K >= 1 /\ Len(Front(open)) = K - 1 /\ \A k \in 1..K - 1 : Front(open)[k] = open[k]
      BY <1>7, <2>4, FrontFacts
    <3> QED
      BY <1>7, <2>4, <3>1
  <2> HIDE DEF p
  <2> QED
    BY <1>3, <2>1, <2>2, <2>3, <2>4
<1>13. /\ In2 => K2 >= 1 /\ open'[K2] = "template"
       /\ K2 >= 1 /\ open'[K2] = "template" => In2
  <2>1. open' \in Seq(B)
    BY TypesGrow DEF Types
  <2>2. K2 >= 1 <=> open' # <<>>
    BY <2>1
  <2> QED
    BY <1>11, <2>2 DEF Last
<1> HIDE DEF N, K, K2, In2, g, l, p, B
<1>14. ASSUME NEW i \in 1..N + 1, opens(written'[i])
       PROVE  /\ i + 1 <= N + 1 => written'[i + 1].class = "operand"
              /\ i + 2 <= N + 1 => closes(written'[i + 2])
              /\ i + 2 > N + 1 => In2
  <2>1. CASE i = N + 1
    <3>1. w.class = "open" /\ w.str # p
      BY <1>1, <1>6, <1>14, <2>1
    <3>2. K2 = K + 1 /\ open'[K + 1] = "template"
      BY <1>3, <1>12, <3>1
    <3>3. In2
      BY <1>7, <1>13, <3>2
    <3> QED
      BY <1>1, <2>1, <3>3
  <2>2. CASE i = N /\ N >= 1
    <3>1. i \in 1..N /\ opens(written[N]) /\ InTemplate
      BY <1>1, <1>10, <1>14, <2>2
    <3>2. written # <<>> /\ Class = "open"
      BY <1>4, <1>5, <2>2, <3>1
    <3>3. w.class = "operand" /\ open' = open
      BY <1>2, <3>1, <3>2
    <3>4. K2 = K /\ open'[K] = open[K]
      BY <3>3 DEF K, K2
    <3>5. In2
      BY <1>8, <1>13, <3>1, <3>4
    <3> QED
      BY <1>1, <2>2, <3>3, <3>5
  <2>3. CASE i <= N - 1
    <3>1. i \in 1..N /\ i + 1 \in 1..N /\ opens(written[i]) /\ written[i + 1].class = "operand"
          /\ written'[i + 1] = written[i + 1]
      BY <1>1, <1>10, <1>14, <2>3
    <3>2. ~(i + 2 > N + 1)
      BY <1>1, <2>3
    <3>3. CASE i + 2 <= N
      <4>1. i + 2 \in 1..N /\ written'[i + 2] = written[i + 2]
        BY <1>1, <3>3
      <4> QED
        BY <1>10, <3>1, <3>2, <3>3, <4>1
    <3>4. CASE i + 2 > N
      <4>1. i + 2 = N + 1 /\ i + 1 = N /\ N >= 1
        BY <1>1, <2>3, <3>4
      <4>2. InTemplate
        BY <1>10, <3>1, <3>4
      <4>3. written # <<>> /\ Class = "operand"
        BY <1>4, <1>5, <3>1, <4>1
      <4>4. closes(w)
        BY <1>2, <4>2, <4>3
      <4> QED
        BY <1>1, <3>1, <3>2, <4>1, <4>4
    <3> QED
      BY <1>1, <2>3, <3>3, <3>4
  <2> QED
    BY <1>1, <2>1, <2>2, <2>3
<1>15. ASSUME In2 PROVE \E i \in 1..N + 1 : opens(written'[i]) /\ i + 2 > N + 1
  <2>1. K2 >= 1 /\ open'[K2] = "template"
    BY <1>13, <1>15
  <2>2. CASE open' = open /\ K2 = K /\ \A k \in 1..K : open'[k] = open[k]
    <3>1. InTemplate
      BY <1>9, <2>1, <2>2
    <3>2. PICK i \in 1..N : opens(written[i]) /\ i + 2 > N
      BY <1>10, <3>1
    <3>3. CASE i = N
      <4>1. i \in 1..N + 1 /\ written'[i] = written[i] /\ i + 2 > N + 1
        BY <1>1, <3>2, <3>3
      <4> QED
        BY <3>2, <4>1
    <3>4. CASE i = N - 1
      <4>1. i + 1 = N /\ N >= 1 /\ written[N].class = "operand"
        BY <1>1, <1>10, <3>2, <3>4
      <4>2. written # <<>> /\ Class = "operand"
        BY <1>4, <1>5, <4>1
      <4>3. w.class = "close"
        BY <1>2, <3>1, <4>2
      <4>4. open' = Front(open)
        BY <1>2, <3>1, <4>3
      <4>5. K2 = K - 1
        <5>2. Len(Front(open)) = Len(open) - 1
          <6>1. open # <<>>
            BY <3>1 DEF InTemplate
          <6> QED
            BY <1>7, <6>1, FrontFacts
        <5> QED
          BY <4>4, <5>2 DEF K2, K
      <4> QED
        BY <1>7, <2>2, <4>5
    <3> QED
      BY <1>1, <3>2, <3>3, <3>4
  <2>3. CASE K2 = K + 1 /\ open'[K + 1] \in {"group", "call"}
    BY <2>1, <2>3
  <2>4. CASE opens(w)
    <3>1. N + 1 \in 1..N + 1 /\ opens(written'[N + 1]) /\ N + 1 + 2 > N + 1
      BY <1>1, <2>4
    <3> QED
      BY <3>1
  <2>5. CASE K2 = K - 1 /\ (\A k \in 1..K - 1 : open'[k] = open[k])
    <3>1. K2 \in 1..K - 1
      BY <1>7, <2>1, <2>5
    <3> QED
      BY <1>10, <2>1, <2>5, <3>1
  <2> QED
    BY <1>12, <2>2, <2>3, <2>4, <2>5
<1>16. \A k \in 1..K2 - 1 : open'[k] # "template"
  <2> SUFFICES ASSUME NEW k \in 1..K2 - 1 PROVE open'[k] # "template"
    OBVIOUS
  <2>1. CASE K2 = K /\ \A j \in 1..K : open'[j] = open[j]
    BY <1>7, <1>10, <2>1
  <2>2. CASE K2 = K + 1 /\ (\A j \in 1..K : open'[j] = open[j]) /\ ~InTemplate
    <3>1. CASE k = K
      BY <1>7, <1>9, <2>2, <3>1
    <3>2. CASE k # K
      <4>1. k \in 1..K - 1 /\ k \in 1..K
        BY <1>7, <2>2, <3>2
      <4> QED
        BY <1>10, <2>2, <4>1
    <3> QED
      BY <3>1, <3>2
  <2>3. CASE K2 = K - 1 /\ (\A j \in 1..K - 1 : open'[j] = open[j])
    <3>1. k \in 1..K - 1
      BY <1>7, <2>3
    <3> QED
      BY <1>10, <2>3, <3>1
  <2> QED
    BY <1>12, <2>1, <2>2, <2>3
<1>17. /\ \A i \in 1..Len(written') : opens(written'[i]) =>
            /\ i + 1 <= Len(written') => written'[i + 1].class = "operand"
            /\ i + 2 <= Len(written') => closes(written'[i + 2])
            /\ i + 2 > Len(written') => In2
       /\ In2 => \E i \in 1..Len(written') : opens(written'[i]) /\ i + 2 > Len(written')
  BY <1>1, <1>14, <1>15
<1> QED
  BY <1>16, <1>17, Zenon DEF Templates, IsOpenTemplate, K2, In2, g, l

\* Counting one number more.
LEMMA SetBelow ==
  ASSUME NEW n \in Nat, NEW S \in SUBSET (1..n)
  PROVE  /\ IsFiniteSet(S) /\ Cardinality(S) \in Nat
         /\ Cardinality(S \cup {n + 1}) = Cardinality(S) + 1
         /\ S # {} <=> Cardinality(S) > 0
<1>1. IsFiniteSet(1..n)
  BY FS_Interval
<1>2. IsFiniteSet(S)
  BY <1>1, FS_Subset
<1>3. n + 1 \notin S
  OBVIOUS
<1>4. Cardinality(S) \in Nat /\ Cardinality(S \cup {n + 1}) = Cardinality(S) + 1
  BY <1>2, <1>3, FS_AddElement, FS_CardinalityType
<1>5. Cardinality(S) = 0 <=> S = {}
  BY <1>2, FS_EmptySet
<1> DEFINE c == Cardinality(S)
           empty == S = {}
<1>6. c \in Nat /\ (c = 0 <=> empty)
  BY <1>4, <1>5
<1> HIDE DEF c, empty
<1>7. ~empty <=> c > 0
  BY <1>6
<1> QED
  BY <1>2, <1>4, <1>7, Zenon DEF c, empty

\* Brackets can be counted.
LEMMA OpenedFacts ==
  ASSUME NEW n \in Nat
  PROVE  /\ Opened(n) \in SUBSET (1..n) /\ Closed(n) \in SUBSET (1..n)
         /\ Cardinality(Opened(n)) \in Nat /\ Cardinality(Closed(n)) \in Nat
<1>1. Opened(n) \in SUBSET (1..n) /\ Closed(n) \in SUBSET (1..n)
  BY DEF Opened, Closed
<1> QED
  BY <1>1, SetBelow

\* One lexeme further.
LEMMA OpenedNext ==
  ASSUME NEW n \in Nat
  PROVE  /\ Cardinality(Opened(n + 1)) =
              Cardinality(Opened(n)) +
              (IF written[n + 1].class = "open" /\ written[n + 1].str = <<"(">> THEN 1 ELSE 0)
         /\ Cardinality(Closed(n + 1)) =
              Cardinality(Closed(n)) +
              (IF written[n + 1].class = "close" /\ written[n + 1].str = <<")">> THEN 1 ELSE 0)
<1> DEFINE o(i) == written[i].class = "open" /\ written[i].str = <<"(">>
           c(i) == written[i].class = "close" /\ written[i].str = <<")">>
<1>1. Opened(n) = {i \in 1..n : o(i)} /\ Closed(n) = {i \in 1..n : c(i)}
      /\ Opened(n + 1) = {i \in 1..n + 1 : o(i)} /\ Closed(n + 1) = {i \in 1..n + 1 : c(i)}
  BY DEF Opened, Closed
<1> HIDE DEF o, c
<1>2. Opened(n) \in SUBSET (1..n) /\ Closed(n) \in SUBSET (1..n)
      /\ Cardinality(Opened(n)) \in Nat /\ Cardinality(Closed(n)) \in Nat
  BY OpenedFacts
<1>3. 1..n + 1 = (1..n) \cup {n + 1}
  OBVIOUS
<1>4. /\ o(n + 1) => Opened(n + 1) = Opened(n) \cup {n + 1}
      /\ ~o(n + 1) => Opened(n + 1) = Opened(n)
      /\ c(n + 1) => Closed(n + 1) = Closed(n) \cup {n + 1}
      /\ ~c(n + 1) => Closed(n + 1) = Closed(n)
  BY <1>1, <1>3
<1>5. /\ Cardinality(Opened(n) \cup {n + 1}) = Cardinality(Opened(n)) + 1
      /\ Cardinality(Closed(n) \cup {n + 1}) = Cardinality(Closed(n)) + 1
  BY <1>2, SetBelow
<1>6. /\ Cardinality(Opened(n + 1)) = Cardinality(Opened(n)) + (IF o(n + 1) THEN 1 ELSE 0)
      /\ Cardinality(Closed(n + 1)) = Cardinality(Closed(n)) + (IF c(n + 1) THEN 1 ELSE 0)
  BY <1>2, <1>4, <1>5
<1> QED
  BY <1>6, Zenon DEF o, c

\* Writing leaves what stands before.
LEMMA OpenedGrow ==
  ASSUME Types, NEW w, Grows(w), NEW n \in 0..Len(written)
  PROVE  Opened(n)' = Opened(n) /\ Closed(n)' = Closed(n)
<1>1. Len(written) \in Nat /\ \A i \in 1..Len(written) : written'[i] = written[i]
  BY GrownFacts, TypeFacts
<1>2. \A i \in 1..n : written'[i] = written[i]
  BY <1>1
<1> QED
  BY <1>2 DEF Opened, Closed

\* One more lexeme keeps the brackets balanced.
LEMMA BalanceGrow ==
  ASSUME Types, Balance, NEW w, Grows(w), After(w)
  PROVE  Balance'
<1>0. PICK N \in Nat : N = Len(written)
  BY TypeFacts
<1> DEFINE K == Len(open)
           p == <<"(">>
           c == <<")">>
           l == <<"<">>
           g == <<">">>
           oN == Cardinality(Opened(N))
           cN == Cardinality(Closed(N))
           pN == Cardinality(Pending)
           P2 == Pending'
<1>1. /\ Len(written') = N + 1 /\ N \in Nat /\ \A i \in 1..N : written'[i] = written[i]
      /\ written'[N + 1] = w
  BY <1>0, GrownFacts
<1>2. Opened(N)' = Opened(N) /\ Closed(N)' = Closed(N)
  BY <1>0, <1>1, OpenedGrow
<1>3. open \in Seq({"group", "call", "template"}) /\ K \in Nat
  BY TypeFacts
<1>4. Pending \in SUBSET (1..K) /\ pN \in Nat /\ (Pending # {} <=> pN > 0)
  <2>1. Pending \in SUBSET (1..K)
    BY DEF Pending
  <2> QED
    BY <1>3, <2>1, SetBelow
<1>5. oN \in Nat /\ cN \in Nat /\ oN = cN + pN
  BY <1>0, <1>1, OpenedFacts DEF Balance
<1>6. /\ Cardinality(Opened(N + 1)') = oN + (IF w.class = "open" /\ w.str = p THEN 1 ELSE 0)
      /\ Cardinality(Closed(N + 1)') = cN + (IF w.class = "close" /\ w.str = c THEN 1 ELSE 0)
  <2>1. /\ Opened(N + 1)' = {i \in 1..N + 1 : written'[i].class = "open" /\ written'[i].str = <<"(">>}
        /\ Closed(N + 1)' = {i \in 1..N + 1 : written'[i].class = "close" /\ written'[i].str = <<")">>}
    BY DEF Opened, Closed
  <2>2. /\ Opened(N) = {i \in 1..N : written'[i].class = "open" /\ written'[i].str = <<"(">>}
        /\ Closed(N) = {i \in 1..N : written'[i].class = "close" /\ written'[i].str = <<")">>}
    BY <1>1 DEF Opened, Closed
  <2> DEFINE o(i) == written'[i].class = "open" /\ written'[i].str = <<"(">>
             d(i) == written'[i].class = "close" /\ written'[i].str = <<")">>
             O2 == Opened(N + 1)'
             C2 == Closed(N + 1)'
             O == Opened(N)
             C == Closed(N)
  <2>3. O2 = {i \in 1..N + 1 : o(i)} /\ C2 = {i \in 1..N + 1 : d(i)}
        /\ O = {i \in 1..N : o(i)} /\ C = {i \in 1..N : d(i)}
    BY <2>1, <2>2
  <2>4. (o(N + 1) <=> w.class = "open" /\ w.str = p) /\ (d(N + 1) <=> w.class = "close" /\ w.str = c)
    BY <1>1
  <2>5. O \in SUBSET (1..N) /\ C \in SUBSET (1..N) /\ oN = Cardinality(O) /\ cN = Cardinality(C)
    BY <1>1, OpenedFacts
  <2>6. Cardinality(O \cup {N + 1}) = Cardinality(O) + 1 /\ Cardinality(C \cup {N + 1}) = Cardinality(C) + 1
    BY <1>1, <2>5, SetBelow
  <2> HIDE DEF o, d, O, C, O2, C2, p, c, oN, cN
  <2>7. 1..N + 1 = (1..N) \cup {N + 1}
    BY <1>1
  <2>8. /\ o(N + 1) => O2 = O \cup {N + 1}
        /\ ~o(N + 1) => O2 = O
        /\ d(N + 1) => C2 = C \cup {N + 1}
        /\ ~d(N + 1) => C2 = C
    BY <2>3, <2>7
  <2>9. Cardinality(O2) = oN + (IF o(N + 1) THEN 1 ELSE 0)
        /\ Cardinality(C2) = cN + (IF d(N + 1) THEN 1 ELSE 0)
    BY <1>5, <2>5, <2>6, <2>8
  <2> QED
    BY <2>4, <2>9, Zenon DEF O2, C2
<1>7. \/ /\ open' = open /\ w.class \notin {"open", "close"}
      \/ /\ \E b \in {"group", "call"} : open' = Append(open, b)
         /\ ~InTemplate /\ w.class = "open" /\ w.str = p
      \/ /\ open' = Append(open, "template") /\ ~InTemplate
         /\ w.class = "open" /\ w.str = l
      \/ /\ open # <<>> /\ open' = Front(open) /\ w.class = "close"
         /\ (InTemplate => w.str = g) /\ (~InTemplate => w.str = c)
  BY AfterFacts
<1>8. p # l /\ c # g
  <2>1. p[1] # l[1] /\ c[1] # g[1]
    OBVIOUS
  <2> QED
    BY <2>1
<1>9. \/ P2 = Pending /\ ~(w.class = "open" /\ w.str = p) /\ ~(w.class = "close" /\ w.str = c)
      \/ P2 = Pending \cup {K + 1} /\ w.class = "open" /\ w.str = p
      \/ P2 = Pending \ {K} /\ K \in Pending /\ w.class = "close" /\ w.str = c
  <2>0. P2 = {k \in 1..Len(open') : open'[k] # "template"}
    BY DEF Pending
  <2>1. CASE open' = open /\ w.class \notin {"open", "close"}
    <3>1. P2 = Pending
      BY <2>0, <2>1 DEF Pending
    <3> QED
      BY <2>1, <3>1
  <2>2. CASE /\ \E b \in {"group", "call"} : open' = Append(open, b)
             /\ w.class = "open" /\ w.str = p
    <3>1. PICK b \in {"group", "call"} : open' = Append(open, b)
      BY <2>2
    <3>2. Len(Append(open, b)) = K + 1 /\ Append(open, b)[K + 1] = b
          /\ \A k \in 1..K : Append(open, b)[k] = open[k]
      BY <1>3
    <3>3. P2 = {k \in 1..K + 1 : open'[k] # "template"}
      BY <2>0, <3>1, <3>2
    <3>4. 1..K + 1 = (1..K) \cup {K + 1}
      BY <1>3
    <3>5. P2 = Pending \cup {K + 1}
      BY <3>1, <3>2, <3>3, <3>4 DEF Pending
    <3> QED
      BY <2>2, <3>5
  <2>3. CASE open' = Append(open, "template") /\ w.class = "open" /\ w.str = l
    <3>2. Len(Append(open, "template")) = K + 1 /\ Append(open, "template")[K + 1] = "template"
          /\ \A k \in 1..K : Append(open, "template")[k] = open[k]
      BY <1>3
    <3>3. P2 = {k \in 1..K + 1 : open'[k] # "template"}
      BY <2>0, <2>3, <3>2
    <3>4. 1..K + 1 = (1..K) \cup {K + 1}
      BY <1>3
    <3>5. P2 = Pending
      BY <2>3, <3>2, <3>3, <3>4 DEF Pending
    <3> QED
      BY <1>8, <2>3, <3>5
  <2>4. CASE /\ open # <<>> /\ open' = Front(open) /\ w.class = "close"
             /\ (InTemplate => w.str = g) /\ (~InTemplate => w.str = c)
    <3>1. K >= 1 /\ Len(open') = K - 1 /\ \A k \in 1..K - 1 : open'[k] = open[k]
      BY <1>3, <2>4, FrontFacts
    <3>2. P2 = {k \in 1..K - 1 : open[k] # "template"}
      BY <2>0, <3>1
    <3>3. 1..K = (1..K - 1) \cup {K} /\ K \notin 1..K - 1
      BY <1>3, <3>1
    <3>4. InTemplate <=> open[K] = "template"
      BY <2>4 DEF InTemplate, Last
    <3>5. CASE InTemplate
      <4>1. P2 = Pending
        BY <3>2, <3>3, <3>4, <3>5 DEF Pending
      <4> QED
        BY <1>8, <2>4, <3>5, <4>1
    <3>6. CASE ~InTemplate
      <4>1. P2 = Pending \ {K} /\ K \in Pending
        BY <3>2, <3>3, <3>4, <3>6 DEF Pending
      <4> QED
        BY <2>4, <3>6, <4>1
    <3> QED
      BY <3>5, <3>6
  <2> QED
    BY <1>7, <2>1, <2>2, <2>3, <2>4
<1>10. \/ Cardinality(P2) = pN /\ ~(w.class = "open" /\ w.str = p) /\ ~(w.class = "close" /\ w.str = c)
       \/ Cardinality(P2) = pN + 1 /\ w.class = "open" /\ w.str = p
       \/ Cardinality(P2) = pN - 1 /\ pN > 0 /\ w.class = "close" /\ w.str = c
  <2>1. Cardinality(Pending \cup {K + 1}) = pN + 1
    BY <1>3, <1>4, SetBelow
  <2>2. K \in Pending => Cardinality(Pending \ {K}) = pN - 1
    <3>1. IsFiniteSet(Pending)
      BY <1>3, <1>4, SetBelow
    <3> QED
      BY <3>1, FS_RemoveElement
  <2> HIDE DEF P2, pN, p, c
  <2> QED
    BY <1>4, <1>9, <2>1, <2>2 DEF pN
<1> HIDE DEF P2, pN, oN, cN, p, c, g, l
<1>11. Cardinality(Opened(N + 1)') = Cardinality(Closed(N + 1)') + Cardinality(P2)
  BY <1>4, <1>5, <1>6, <1>10
<1>12. ASSUME NEW i \in 1..N + 1, written'[i].class = "close", written'[i].str = c
       PROVE  Cardinality(Closed(i - 1)') < Cardinality(Opened(i - 1)')
  <2>1. CASE i \in 1..N
    <3>1. i - 1 \in 0..Len(written)
      BY <1>0, <1>1, <2>1
    <3>2. Opened(i - 1)' = Opened(i - 1) /\ Closed(i - 1)' = Closed(i - 1)
      BY <3>1, OpenedGrow
    <3>3. written[i].class = "close" /\ written[i].str = c
      BY <1>1, <1>12, <2>1
    <3>4. Cardinality(Closed(i - 1)) < Cardinality(Opened(i - 1))
      BY <1>0, <2>1, <3>3 DEF Balance, c
    <3> QED
      BY <3>2, <3>4
  <2>2. CASE i = N + 1
    <3>1. w.class = "close" /\ w.str = c /\ i - 1 = N
      BY <1>1, <1>12, <2>2
    <3>2. pN > 0
      BY <1>10, <3>1
    <3>3. cN < oN
      BY <1>4, <1>5, <3>2
    <3> QED
      BY <1>2, <3>1, <3>3 DEF cN, oN
  <2> QED
    BY <1>1, <2>1, <2>2
<1>13. ASSUME NEW i \in 1..N + 1 PROVE written'[i].class = "close" /\ written'[i].str = c =>
          Cardinality(Closed(i - 1)') < Cardinality(Opened(i - 1)')
  BY <1>12
<1>14. Len(written)' = N + 1
  BY <1>1
<1> QED
  BY <1>11, <1>13, <1>14, Zenon DEF Balance, P2, c

----------------------------------------------------------------------------
(* The text from a lexeme on.                                              *)

\* What an operand starts with.
LEMMA OperandStart ==
  ASSUME NEW o \in Operands
  PROVE  /\ \/ o.str[1] \in Word \cup Quotes
            \/ o.str[1] = "." /\ HasAt(o.str, 1, Digits)
         /\ o.kind = "Identifier" => o.str[1] \in Word \ Digits
<1> DEFINE s == o.str
<1>1. s \in Seq(Character) /\ s # <<>> /\ Wellformed(o)
  BY AssumedOperands
<1>2. CASE o.kind = "Identifier"
  <2>1. MatchesIdentifier(s)
    BY <1>1, <1>2, Zenon DEF Wellformed
  <2>2. IdentSpan(s) > 0
    BY <2>1 DEF MatchesIdentifier
  <2>3. s[1] \in Word \ Digits
    BY <1>1, <2>2, IdentProps
  <2> QED
    BY <2>3
<1>3. CASE o.kind # "Identifier"
  <2>1. o.kind \in Literals /\ NextKind(s, <<>>) = o.kind
    BY <1>1, <1>3, Zenon DEF Wellformed
  <2>2. PICK k \in 1..10 : o.kind = Kinds[k]
    BY <2>1 DEF Literals
  <2>3. k \in 1..14
    OBVIOUS
  <2>4. Matches(Kinds[k], s, <<>>)
    BY <2>1, <2>2, <2>3, KindAt
  <2>5. /\ k = 1 => (Matches(Kinds[k], s, <<>>) <=> MatchesBoolLiteral(s))
        /\ k = 2 => (Matches(Kinds[k], s, <<>>) <=> MatchesStringLiteral(s))
        /\ k = 3 => (Matches(Kinds[k], s, <<>>) <=> MatchesRawStringLiteral(s))
        /\ k = 4 => (Matches(Kinds[k], s, <<>>) <=> MatchesCharLiteral(s))
        /\ k = 5 => (Matches(Kinds[k], s, <<>>) <=> MatchesIntBinLiteral(s))
        /\ k = 6 => (Matches(Kinds[k], s, <<>>) <=> MatchesIntOctLiteral(s))
        /\ k = 7 => (Matches(Kinds[k], s, <<>>) <=> MatchesIntDecLiteral(s))
        /\ k = 8 => (Matches(Kinds[k], s, <<>>) <=> MatchesIntHexLiteral(s))
        /\ k = 9 => (Matches(Kinds[k], s, <<>>) <=> MatchesFloatLiteral(s))
        /\ k = 10 => (Matches(Kinds[k], s, <<>>) <=> MatchesFloatHexLiteral(s))
    <3> DEFINE m == Matches(Kinds[k], s, <<>>)
    <3>1. k = 1 => (m <=> MatchesBoolLiteral(s))
      BY MatchesNames
    <3>2. k = 2 => (m <=> MatchesStringLiteral(s))
      BY MatchesNames
    <3>3. k = 3 => (m <=> MatchesRawStringLiteral(s))
      BY MatchesNames
    <3>4. k = 4 => (m <=> MatchesCharLiteral(s))
      BY MatchesNames
    <3>5. k = 5 => (m <=> MatchesIntBinLiteral(s))
      BY MatchesNames
    <3>6. k = 6 => (m <=> MatchesIntOctLiteral(s))
      BY MatchesNames
    <3>7. k = 7 => (m <=> MatchesIntDecLiteral(s))
      BY MatchesNames
    <3>8. k = 8 => (m <=> MatchesIntHexLiteral(s))
      BY MatchesNames
    <3>9. k = 9 => (m <=> MatchesFloatLiteral(s))
      BY MatchesNames
    <3>10. k = 10 => (m <=> MatchesFloatHexLiteral(s))
      BY MatchesNames
    <3> QED
      BY <3>1, <3>2, <3>3, <3>4, <3>5, <3>6, <3>7, <3>8, <3>9, <3>10
  <2>6. MatchesBoolLiteral(s) => s[1] \in Word
    <3> SUFFICES ASSUME MatchesBoolLiteral(s) PROVE s[1] \in Word
      OBVIOUS
    <3>1. Ident(s) # <<>>
      BY DEF MatchesBoolLiteral
    <3>2. IdentSpan(s) > 0
      BY <1>1, <3>1, IdentProps
    <3> QED
      BY <1>1, <3>2, IdentProps
  <2>7. k \in 1..4 => s[1] \in Word \cup Quotes
    <3>1. \A t \in Openings : MatchesQuoted(s, t) => s[1] \in Word \cup Quotes
      BY <1>1, QuotedStart
    <3>2. MatchesStringLiteral(s) \/ MatchesCharLiteral(s) \/ MatchesRawStringLiteral(s) => s[1] \in Word \cup Quotes
      BY <3>1, OpeningNames, Zenon
    <3>3. k \in 1..4 => k = 1 \/ k = 2 \/ k = 3 \/ k = 4
      OBVIOUS
    <3> QED
      BY <2>4, <2>5, <2>6, <3>2, <3>3
  <2>8. k \notin 1..4 => NumberMatch(s)
    <3>1. k \notin 1..4 => k = 5 \/ k = 6 \/ k = 7 \/ k = 8 \/ k = 9 \/ k = 10
      OBVIOUS
    <3> QED
      BY <2>4, <2>5, <3>1 DEF NumberMatch
  <2>9. NumberMatch(s) => s[1] \in Word \/ (s[1] = "." /\ HasAt(s, 1, Digits))
    <3> SUFFICES ASSUME NumberMatch(s) PROVE s[1] \in Word \/ (s[1] = "." /\ HasAt(s, 1, Digits))
      OBVIOUS
    <3>1. HasAt(s, 0, Digits) \/ (HasAt(s, 0, {"."}) /\ HasAt(s, 1, Digits))
      BY <1>1, NumberStart
    <3>2. HasAt(s, 0, Digits) => s[1] \in Digits
      BY DEF HasAt
    <3>3. HasAt(s, 0, {"."}) => s[1] = "."
      BY DEF HasAt
    <3>4. Digits \subseteq Word
      BY DEF Word
    <3> QED
      BY <3>1, <3>2, <3>3, <3>4
  <2> QED
    BY <1>3, <2>7, <2>8, <2>9
<1> QED
  BY <1>2, <1>3

\* A character a lexeme may start with.
Starting == Word \cup Quotes \cup Marks

\* What an operator starts with.
LEMMA PunctuatorStart ==
  ASSUME NEW x \in Punctuators
  PROVE  x[1] \in Marks \/ (x \in Keywords /\ x[1] \in Word \ Digits)
<1>1. x \in Keywords \/ x \in BinaryOperators \cup OtherOnes \cup OtherTwos
  BY PunctuatorsSpell
<1>2. CASE x \in Keywords
  <2>1. Len(x) \in Nat /\ Len(x) >= 3 /\ (\A k \in 1..Len(x) : x[k] \in Word) /\ x[1] \notin Digits
    BY <1>2, KeywordsSpell
  <2>2. 1 \in 1..Len(x)
    BY <2>1
  <2> QED
    BY <1>2, <2>1, <2>2
<1>3. CASE x \in BinaryOperators \cup OtherOnes \cup OtherTwos
  <2>1. Len(x) \in Nat /\ 1 <= Len(x) /\ \A k \in 1..Len(x) : x[k] \in Marks
    BY <1>3, MarksSpell
  <2>2. 1 \in 1..Len(x)
    BY <2>1
  <2> QED
    BY <2>1, <2>2
<1> QED
  BY <1>1, <1>2, <1>3

\* What any lexeme starts with.
LEMMA LexemeStart ==
  ASSUME NEW w \in Lexeme, Proper(w)
  PROVE  /\ w.str[1] \in Starting
         /\ w.class \in {"infix", "open", "close"} => w.str[1] \in Marks
         /\ w.class \in {"operand", "prefix"} => w.str[1] \notin {"=", ">", "<", "(", ")"}
         /\ w.class = "operand" /\ w.kind = "Identifier" => w.str[1] \in Word \ Digits
         /\ w.class \in {"open", "close"} => w.str[1] # "."
<1>1. CASE w.class = "operand"
  <2>1. PICK o \in Operands : w.kind = o.kind /\ w.str = o.str
    BY <1>1 DEF Proper
  <2>2. /\ \/ w.str[1] \in Word \cup Quotes
           \/ w.str[1] = "."
        /\ w.kind = "Identifier" => w.str[1] \in Word \ Digits
    BY <2>1, OperandStart
  <2>3. \A m \in {"=", ">", "<", "(", ")"} : m \notin Word \cup Quotes /\ m # "."
    <3>1. \A m \in {"=", ">", "<", "(", ")"} : m \in Marks /\ m # "."
      BY RelationalMarks
    <3> QED
      BY <3>1, MarkFacts
  <2>4. "." \in Marks
    BY RelationalMarks
  <2> QED
    BY <1>1, <2>2, <2>3, <2>4 DEF Starting
<1>2. CASE w.class = "prefix"
  <2>1. w.str \in Unaries
    BY <1>2 DEF Proper
  <2>2. CASE w.str \in Keywords
    <3>1. Len(w.str) \in Nat /\ Len(w.str) >= 3 /\ (\A k \in 1..Len(w.str) : w.str[k] \in Word)
      BY <2>2, KeywordsSpell
    <3>2. 1 \in 1..Len(w.str)
      BY <3>1
    <3>3. w.str[1] \in Word
      BY <3>1, <3>2
    <3>4. \A m \in {"=", ">", "<", "(", ")"} : m \notin Word
      <4>1. \A m \in {"=", ">", "<", "(", ")"} : m \in Marks
        BY RelationalMarks
      <4> QED
        BY <4>1, MarkFacts
    <3> QED
      BY <1>2, <3>3, <3>4 DEF Starting
  <2>3. CASE w.str \in {<<"+">>, <<"-">>, <<"~">>, <<"!">>, <<"*">>, <<"&">>}
    <3>1. w.str[1] \in {"+", "-", "~", "!", "*", "&"}
      BY <2>3
    <3>2. \A m \in {"+", "-", "~", "!", "*", "&"} : m \in Marks /\ m \notin {"=", ">", "<", "(", ")"}
      BY DEF Marks
    <3> QED
      BY <1>2, <3>1, <3>2 DEF Starting
  <2> QED
    BY <2>1, <2>2, <2>3, AssumedOperators
<1>3. CASE w.class = "infix"
  <2>1. w.str \in BinaryOperators
    BY <1>3, AssumedOperators DEF Proper
  <2>2. Len(w.str) \in Nat /\ 1 <= Len(w.str) /\ \A k \in 1..Len(w.str) : w.str[k] \in Marks
    BY <2>1, MarksSpell
  <2>3. w.str[1] \in Marks
    BY <2>2
  <2> QED
    BY <1>3, <2>3 DEF Starting
<1>4. CASE w.class \in {"open", "close"}
  <2>1. w.str \in {<<"(">>, <<"<">>} \cup {<<")">>, <<">">>}
    BY <1>4 DEF Proper
  <2>2. w.str[1] \in {"(", ")", "<", ">"}
    BY <2>1
  <2>3. \A m \in {"(", ")", "<", ">"} : m \in Marks /\ m # "."
    BY RelationalMarks
  <2> QED
    BY <1>4, <2>2, <2>3 DEF Starting
<1> QED
  BY <1>1, <1>2, <1>3, <1>4, LexemeFacts

\* No lexeme starts with a blank.
LEMMA StartNotBlank ==
  /\ \A c \in Starting : c \notin Blank
  /\ Space \in Blank
<1>1. Space \in Blank
  BY Zenon DEF Space, Blank
<1>2. \A c \in Starting : c \notin Blank
  <2>1. "\t" \notin Word
    BY DEF Word, Letters, Digits
  <2>2. "\t" \notin Quotes /\ "\t" \notin Marks
    BY DEF Quotes, DoubleQuote, Marks, Comma
  <2>3. Space \notin Word /\ Space \notin Quotes /\ Space \notin Marks
    BY MarkFacts
  <2>4. Blank = {Space, "\t"}
    BY Zenon DEF Blank, Space
  <2> QED
    BY <2>1, <2>2, <2>3, <2>4, Zenon DEF Starting
<1> QED
  BY <1>1, <1>2

\* Where the lexemes stand, expanded.
LEMMA PlacedFacts ==
  ASSUME Types, Placed
  PROVE  /\ Len(written) \in Nat /\ text \in Seq(Character) /\ Len(text) \in Nat
         /\ \A i \in 1..Len(written) :
               /\ written[i] \in Lexeme /\ Proper(written[i])
               /\ written[i].str \in Seq(Character)
               /\ written[i].at \in Nat /\ Len(written[i].str) \in Nat /\ 1 <= Len(written[i].str)
               /\ End(written[i]) = written[i].at + Len(written[i].str)
               /\ End(written[i]) \in Nat /\ End(written[i]) <= Len(text)
               /\ \A k \in 1..Len(written[i].str) : text[written[i].at + k] = written[i].str[k]
         /\ \A i \in 1..Len(written) - 1 :
               \/ written[i + 1].at = End(written[i]) + 1 /\ text[End(written[i]) + 1] = Space
               \/ written[i + 1].at = End(written[i]) /\ ~Glue(written[i].str, written[i + 1].str)
         /\ Len(written) >= 1 => written[1].at = 0 /\ End(written[Len(written)]) = Len(text)
         /\ \A i, j \in 1..Len(written) : i < j => End(written[i]) <= written[j].at
<1>1. Len(written) \in Nat /\ text \in Seq(Character) /\ Len(text) \in Nat
  BY TypeFacts
<1>2. ASSUME NEW i \in 1..Len(written)
      PROVE  /\ written[i] \in Lexeme /\ Proper(written[i])
             /\ written[i].str \in Seq(Character)
             /\ written[i].at \in Nat /\ Len(written[i].str) \in Nat /\ 1 <= Len(written[i].str)
             /\ End(written[i]) = written[i].at + Len(written[i].str)
             /\ End(written[i]) \in Nat
  <2>1. written[i] \in Lexeme /\ Proper(written[i])
    BY TypeFacts
  <2>2. /\ written[i].str \in Seq(Character)
        /\ written[i].at \in Nat /\ Len(written[i].str) \in Nat /\ 1 <= Len(written[i].str)
    BY <2>1, LexemeFacts
  <2>3. End(written[i]) = written[i].at + Len(written[i].str)
    BY DEF End
  <2> QED
    BY <2>1, <2>2, <2>3
<1>3. /\ \A i \in 1..Len(written) :
           /\ End(written[i]) <= Len(text)
           /\ \A k \in 1..Len(written[i].str) : text[written[i].at + k] = written[i].str[k]
      /\ \A i \in 1..Len(written) - 1 :
           \/ written[i + 1].at = End(written[i]) + 1 /\ text[End(written[i]) + 1] = Space
           \/ written[i + 1].at = End(written[i]) /\ ~Glue(written[i].str, written[i + 1].str)
      /\ \A i, j \in 1..Len(written) : i < j => End(written[i]) <= written[j].at
  BY DEF Placed
<1>4. Len(written) >= 1 => written[1].at = 0 /\ End(written[Len(written)]) = Len(text)
  <2> DEFINE N == Len(written)
  <2>1. N >= 1 => 1 \in 1..N /\ N \in 1..N
    BY <1>1
  <2>2. \A i \in 1..N : (i = 1 => written[i].at = 0) /\ (i = N => End(written[i]) = Len(text))
    BY DEF Placed
  <2> HIDE DEF N
  <2>3. N >= 1 => written[1].at = 0 /\ End(written[N]) = Len(text)
    BY <2>1, <2>2
  <2> QED
    BY <2>3 DEF N
<1> QED
  BY <1>1, <1>2, <1>3, <1>4

\* The rest of the text from a lexeme on.
LEMMA FollowAt ==
  ASSUME Types, Placed, NEW i \in 1..Len(written)
  PROVE  /\ Past(text, written[i].at) \in Seq(Character)
         /\ Len(Past(text, written[i].at)) \in Nat
         /\ Len(Past(text, written[i].at)) = Len(text) - written[i].at
         /\ Follow(Past(text, written[i].at), written[i].str)
         /\ \A C : HasAt(Past(text, written[i].at), Len(written[i].str), C) =>
               \/ Space \in C
               \/ /\ i < Len(written) /\ written[i + 1].at = End(written[i])
                  /\ written[i + 1].str[1] \in C
         /\ Len(Past(text, written[i].at)) <= Len(written[i].str) => i = Len(written)
<1> DEFINE N == Len(written)
           T == Len(text)
           w == written[i]
           v == written[i + 1]
           x == w.str
           l == Len(x)
           at == w.at
           s == Past(text, at)
           ls == Len(s)
<1>1. /\ N \in Nat /\ text \in Seq(Character) /\ T \in Nat /\ x \in Seq(Character)
      /\ at \in Nat /\ l \in Nat /\ 1 <= l /\ End(w) = at + l /\ End(w) <= T
      /\ \A k \in 1..l : text[at + k] = x[k]
  BY PlacedFacts
<1>2. at \in 0..T
  BY <1>1
<1>3. /\ s \in Seq(Character) /\ ls = T - at
      /\ \A k \in 1..T - at : s[k] = text[at + k]
  BY <1>1, <1>2, PastProps
<1>4. i < N => /\ v.at \in Nat /\ 1 <= Len(v.str) /\ Len(v.str) \in Nat /\ End(v) = v.at + Len(v.str)
               /\ End(v) <= T /\ \A k \in 1..Len(v.str) : text[v.at + k] = v.str[k]
  <2>1. i < N => i + 1 \in 1..N
    BY <1>1
  <2> QED
    BY <2>1, PlacedFacts
<1>5. i < N => \/ v.at = End(w) + 1 /\ text[End(w) + 1] = Space
               \/ v.at = End(w) /\ ~Glue(x, v.str)
  <2>1. i < N => i \in 1..N - 1
    BY <1>1
  <2> QED
    BY <2>1, PlacedFacts
<1>6. i = N => End(w) = T
  <2>1. i = N => N >= 1
    BY <1>1
  <2> QED
    BY <2>1, PlacedFacts
<1> HIDE DEF N, T, x, l, at, s, ls, v, w
<1>7. i \in 1..N
  BY DEF N
<1>8. Begins(s, x)
  <2>1. l <= ls /\ \A k \in 1..l : s[k] = x[k]
    BY <1>1, <1>3
  <2> QED
    BY <1>1, <1>3, <2>1 DEF Begins, l, ls
<1>9. l < ls => i < N
  BY <1>1, <1>3, <1>6, <1>7
<1>10. ls <= l => i = N
  <2> SUFFICES ASSUME ls <= l, i < N PROVE FALSE
    BY <1>1, <1>7
  <2> QED
    BY <1>1, <1>3, <1>4, <1>5
<1>11. ASSUME l < ls
       PROVE  s[l + 1] = Space \/ (v.at = End(w) /\ s[l + 1] = v.str[1] /\ ~Glue(x, v.str))
  <2>1. i < N
    BY <1>9, <1>11
  <2>2. l + 1 \in 1..T - at
    BY <1>1, <1>3, <1>11
  <2>3. s[l + 1] = text[End(w) + 1]
    BY <1>1, <1>3, <2>2
  <2>4. 1 \in 1..Len(v.str)
    BY <1>4, <2>1
  <2> QED
    BY <1>4, <1>5, <2>1, <2>3, <2>4
<1>12. ASSUME l < ls PROVE Apart(x, s[l + 1])
  <2>1. CASE s[l + 1] = Space
    BY <1>1, <2>1, SpaceApart
  <2>2. CASE s[l + 1] = v.str[1] /\ ~Glue(x, v.str)
    <3>1. Head(v.str) = v.str[1]
      OBVIOUS
    <3> QED
      BY <2>2, <3>1 DEF Glue, Apart
  <2> QED
    BY <1>11, <1>12, <2>1, <2>2
<1>13. Follow(s, x)
  BY <1>8, <1>12 DEF Follow, l, ls
<1>14. ASSUME NEW C, HasAt(s, l, C)
       PROVE  Space \in C \/ (i < N /\ v.at = End(w) /\ v.str[1] \in C)
  <2>1. l < ls /\ s[l + 1] \in C
    BY <1>14 DEF HasAt, ls
  <2> QED
    BY <1>9, <1>11, <2>1
<1>15. ls \in Nat
  BY <1>1, <1>2, <1>3
<1> QED
  BY <1>3, <1>10, <1>13, <1>14, <1>15 DEF N, T, x, l, at, s, ls, v, w

\* Blanks end where the next lexeme starts.
LEMMA Gap ==
  ASSUME Types, Placed, NEW n \in 0..Len(written), pos = IF n = 0 THEN 0 ELSE End(written[n])
  PROVE  /\ n < Len(written) => BlanksEnd = written[n + 1].at /\ pos <= written[n + 1].at
         /\ n = Len(written) /\ n > 0 => pos = Len(text) /\ BlanksEnd = Len(text)
<1> DEFINE N == Len(written)
           T == Len(text)
           s == Past(text, pos)
<1>1. /\ N \in Nat /\ text \in Seq(Character) /\ T \in Nat
      /\ N >= 1 => written[1].at = 0 /\ End(written[N]) = T
  BY PlacedFacts
<1>2. n > 0 => n \in 1..N /\ End(written[n]) \in Nat /\ End(written[n]) <= T
  BY <1>1, PlacedFacts
<1>3. pos \in 0..T
  BY <1>1, <1>2
<1>4. /\ s \in Seq(Character) /\ Len(s) = T - pos
      /\ \A m \in Nat : \A C : HasAt(s, m, C) <=> HasAt(text, pos + m, C)
      /\ \A k \in 1..T - pos : s[k] = text[pos + k]
  BY <1>1, <1>3, PastProps
<1>5. ASSUME n < N
      PROVE  BlanksEnd = written[n + 1].at /\ pos <= written[n + 1].at
  <2> DEFINE v == written[n + 1]
             d == v.at - pos
  <2>1. n + 1 \in 1..N
    BY <1>1, <1>5
  <2>2. /\ v \in Lexeme /\ Proper(v) /\ v.at \in Nat /\ Len(v.str) \in Nat /\ 1 <= Len(v.str)
        /\ End(v) = v.at + Len(v.str) /\ End(v) <= T
        /\ \A k \in 1..Len(v.str) : text[v.at + k] = v.str[k]
    BY <2>1, PlacedFacts
  <2>3. v.at = pos \/ (v.at = pos + 1 /\ text[pos + 1] = Space)
    <3>1. CASE n = 0
      <4>1. N >= 1 /\ n + 1 = 1
        BY <1>1, <1>5, <3>1
      <4> QED
        BY <1>1, <3>1, <4>1
    <3>2. CASE n > 0
      <4>1. n \in 1..N - 1 /\ pos = End(written[n])
        BY <1>1, <1>5, <3>2
      <4>2. \/ written[n + 1].at = End(written[n]) + 1 /\ text[End(written[n]) + 1] = Space
            \/ written[n + 1].at = End(written[n])
        BY <4>1, PlacedFacts
      <4> QED
        BY <4>1, <4>2
    <3> QED
      BY <1>1, <3>1, <3>2
  <2>4. v.str[1] \notin Blank /\ Space \in Blank
    BY <2>2, LexemeStart, StartNotBlank
  <2> HIDE DEF v
  <2>5. d \in 0..T - pos /\ d <= 1
    BY <1>1, <1>3, <2>2, <2>3
  <2>6. \A k \in 1..d : s[k] \in Blank
    <3> SUFFICES ASSUME NEW k \in 1..d PROVE s[k] \in Blank
      OBVIOUS
    <3>1. k = 1 /\ text[pos + 1] = Space /\ k \in 1..T - pos
      BY <1>3, <2>2, <2>3, <2>5
    <3> QED
      BY <1>4, <2>4, <3>1
  <2>7. ~HasAt(s, d, Blank)
    <3>1. HasAt(s, d, Blank) => HasAt(text, v.at, Blank)
      <4>1. pos + d = v.at /\ d \in Nat
        BY <1>3, <2>2, <2>5
      <4> QED
        BY <1>4, <4>1
    <3>2. text[v.at + 1] = v.str[1]
      <4>1. 1 \in 1..Len(v.str)
        BY <2>2
      <4> QED
        BY <2>2, <4>1
    <3> QED
      BY <2>4, <3>1, <3>2 DEF HasAt
  <2>8. d \in 0..Len(s)
    BY <1>4, <2>5
  <2> DEFINE e == d
  <2> HIDE DEF e
  <2>9. Span(s, Blank) = d
    BY <1>4, <2>6, <2>7, <2>8, SpanIs
  <2>10. BlanksEnd = pos + d
    BY <2>9 DEF BlanksEnd
  <2> QED
    BY <1>3, <2>2, <2>5, <2>10 DEF v
<1>6. ASSUME n = N, n > 0
      PROVE  pos = T /\ BlanksEnd = T
  <2>1. pos = T
    BY <1>1, <1>6
  <2>2. Span(s, Blank) \in 0..Len(s)
    BY <1>4, SpanProps
  <2>3. Span(s, Blank) = 0
    BY <1>1, <1>4, <2>1, <2>2
  <2> QED
    BY <1>1, <2>1, <2>3 DEF BlanksEnd
<1> QED
  BY <1>5, <1>6

\* The text from a lexeme on starts with the lexeme's first character.
LEMMA FollowStart ==
  ASSUME NEW s, NEW x, Follow(s, x), 1 <= Len(x)
  PROVE  s \in Seq(Character) /\ s # <<>> /\ s[1] = x[1] /\ Begins(s, x)
<1>1. /\ s \in Seq(Character) /\ x \in Seq(Character) /\ Len(x) <= Len(s) /\ Begins(s, x)
      /\ \A k \in 1..Len(x) : s[k] = x[k]
  BY DEF Follow, Begins
<1>2. 1 \in 1..Len(x)
  BY <1>1
<1>3. s # <<>>
  BY <1>1
<1> QED
  BY <1>1, <1>2, <1>3

\* Who stands next to whom, expanded.
LEMMA AdjacentFacts ==
  ASSUME Types, Adjacent
  PROVE  /\ \A i \in 1..Len(written) - 1 : Neighbours(written[i], written[i + 1])
         /\ phase # "write" => /\ written # <<>> /\ Len(written) >= 1
                               /\ Last(written) = written[Len(written)]
                               /\ written[Len(written)].class \in {"operand", "close"}
         /\ Len(written) >= 1 => /\ written[1].class \in {"operand", "prefix", "open"}
                                 /\ written[1].class = "open" => written[1].str = <<"(">>
<1>1. written \in Seq(Lexeme) /\ Len(written) \in Nat
  BY TypeFacts
<1>2. Len(written) >= 1 => written # <<>>
  OBVIOUS
<1> DEFINE p == <<"(">>
<1>3. /\ \A i \in 1..Len(written) - 1 : Neighbours(written[i], written[i + 1])
      /\ written # <<>> => /\ written[1].class \in {"operand", "prefix", "open"}
                           /\ written[1].class = "open" => written[1].str = p
      /\ phase # "write" => written # <<>> /\ Class \in {"operand", "close"}
  BY DEF Adjacent
<1>4. written # <<>> => Class = written[Len(written)].class /\ Last(written) = written[Len(written)] /\ Len(written) >= 1
  BY ClassFacts
<1> HIDE DEF p
<1>5. phase # "write" => written[Len(written)].class \in {"operand", "close"}
  BY <1>3, <1>4
<1>6. Len(written) >= 1 => /\ written[1].class \in {"operand", "prefix", "open"}
                           /\ written[1].class = "open" => written[1].str = p
  BY <1>2, <1>3
<1> QED
  BY <1>3, <1>4, <1>5, <1>6 DEF p

\* The only member operator that starts with a dot.
LEMMA DotInfix ==
  ASSUME NEW x \in Infixes, x[1] = "."
  PROVE  x = <<".">> /\ x \in Members
<1>1. x \in BinaryOperators \ {<<".", "*">>} /\ x \in Punctuators
  BY AssumedOperators, AssumedSpelling
<1>2. x = <<".">> \/ x = <<".", "*">>
  BY <1>1, RelationalOps
<1>3. x = <<".">>
  BY <1>1, <1>2
<1> QED
  BY <1>3 DEF Members

\* What follows an operand.
LEMMA OperandFollow ==
  ASSUME Types, Placed, Adjacent, NEW i \in 1..Len(written), written[i].class = "operand"
  PROVE  /\ ~HasAt(Past(text, written[i].at), Len(written[i].str), Word \cup Quotes)
         /\ written[i].kind # "Identifier" =>
              ~HasAt(Past(text, written[i].at), Len(written[i].str), {"."})
<1> DEFINE s == Past(text, written[i].at)
           l == Len(written[i].str)
           v == written[i + 1]
<1>1. \A C : HasAt(s, l, C) => Space \in C \/ (i < Len(written) /\ v.str[1] \in C)
  BY FollowAt
<1>2. ASSUME i < Len(written)
      PROVE  /\ v.str[1] \in Marks
             /\ v.str[1] = "." => written[i].kind = "Identifier"
  <2>1. i \in 1..Len(written) - 1 /\ i + 1 \in 1..Len(written) /\ v \in Lexeme /\ Proper(v)
    BY <1>2, TypeFacts
  <2>2. /\ v.class \in {"infix", "open", "close"}
        /\ v.class = "infix" /\ v.str \in Members => written[i].kind = "Identifier"
    BY <2>1, AdjacentFacts DEF Neighbours
  <2>3. v.str[1] \in Marks /\ (v.class \in {"open", "close"} => v.str[1] # ".")
    BY <2>1, <2>2, LexemeStart
  <2>4. v.class = "infix" => v.str \in Infixes
    BY <2>1 DEF Proper
  <2>5. v.class = "infix" /\ v.str[1] = "." => v.str \in Members
    BY <2>4, DotInfix
  <2> QED
    BY <2>2, <2>3, <2>5
<1> HIDE DEF s, l, v
<1>3. ~HasAt(s, l, Word \cup Quotes)
  <2>1. Space \notin Word \cup Quotes /\ \A m \in Marks : m \notin Word \cup Quotes
    BY MarkFacts
  <2> QED
    BY <1>1, <1>2, <2>1
<1>4. written[i].kind # "Identifier" => ~HasAt(s, l, {"."})
  <2>1. Space # "."
    BY MarkFacts, RelationalMarks
  <2>2. HasAt(s, l, {"."}) => Space \in {"."} \/ (i < Len(written) /\ v.str[1] \in {"."})
    BY <1>1
  <2> QED
    BY <1>2, <2>1, <2>2
<1> QED
  BY <1>3, <1>4 DEF s, l

\* The next token at an operand: the operand, or an exception for one of two reasons.
LEMMA OperandStep ==
  ASSUME Types, Placed, Adjacent, NEW i \in 1..Len(written), written[i].class = "operand", NEW prevs,
         NEW s, s = Past(text, written[i].at)
  PROVE  /\ NextKind(s, prevs) \in KindSet /\ s[1] \notin {"(", ")", "<", ">"}
         /\ \/ /\ NextKind(s, prevs) = written[i].kind
               /\ Parse(NextKind(s, prevs), s) <= Len(written[i].str)
               /\ Parse(NextKind(s, prevs), s) >= Len(written[i].str)
               /\ Parse(NextKind(s, prevs), s) \in Nat
            \/ /\ Parse(NextKind(s, prevs), s) = Throws
               /\ \/ written[i].kind = "FloatHexLiteral" /\ Fraction(written[i].str)
                  \/ i = Len(written) /\ written[i].str \in StrlikePrefixes
<1> DEFINE x == written[i].str
<1>1. /\ written[i] \in Lexeme /\ Proper(written[i]) /\ 1 <= Len(x) /\ Len(x) \in Nat
  BY PlacedFacts
<1>2. PICK o \in Operands : written[i].kind = o.kind /\ x = o.str
  BY <1>1 DEF Proper
<1>3. o.str \in Seq(Character) \ {<<>>} /\ Wellformed(o) /\ o.kind \in KindSet
  BY AssumedOperands
<1>4. Follow(s, x) /\ (Len(s) <= Len(x) => i = Len(written))
  BY FollowAt
<1>5. Begins(s, x) /\ s[1] = x[1]
  BY <1>1, <1>4, FollowStart
<1>6. ~HasAt(s, Len(x), Word \cup Quotes) /\ (written[i].kind # "Identifier" => ~HasAt(s, Len(x), {"."}))
  BY OperandFollow
<1> HIDE DEF x
<1>7. Begins(s, o.str) /\ ~HasAt(s, Len(o.str), Word \cup Quotes)
      /\ (o.kind # "Identifier" => ~HasAt(s, Len(o.str), {"."}))
  BY <1>2, <1>5, <1>6
<1>8. \/ /\ NextKind(s, prevs) = o.kind
         /\ \/ /\ Parse(o.kind, s) >= Len(o.str) /\ Parse(o.kind, s) <= Len(o.str)
               /\ Parse(o.kind, s) \in Nat
            \/ Parse(o.kind, s) = Throws /\ o.kind = "FloatHexLiteral" /\ Fraction(o.str)
      \/ /\ s = o.str /\ o.str \in StrlikePrefixes
         /\ NextKind(s, prevs) = "StringLiteral" /\ Parse("StringLiteral", s) = Throws
  BY <1>3, <1>7, OperandToken, ZenonT(60)
<1>9. s[1] \notin {"(", ")", "<", ">"}
  BY <1>1, <1>5, LexemeStart DEF x
<1>10. "StringLiteral" \in KindSet
  <2>1. 2 \in 1..14 /\ Kinds[2] = "StringLiteral"
    BY KindNames
  <2> QED
    BY <2>1 DEF KindSet
<1>11. s = o.str => i = Len(written)
  <2>1. s = o.str => Len(s) = Len(x)
    BY <1>2
  <2>2. s = o.str => Len(s) <= Len(x)
    BY <1>1, <2>1
  <2> QED
    BY <1>4, <2>2
<1>12. CASE NextKind(s, prevs) = o.kind
  <2>1. NextKind(s, prevs) \in KindSet
    BY <1>3, <1>12
  <2>2. CASE /\ Parse(o.kind, s) >= Len(o.str) /\ Parse(o.kind, s) <= Len(o.str)
             /\ Parse(o.kind, s) \in Nat
    BY <1>2, <1>9, <1>12, <2>1, <2>2 DEF x
  <2>3. CASE Parse(o.kind, s) = Throws /\ o.kind = "FloatHexLiteral" /\ Fraction(o.str)
    BY <1>2, <1>9, <1>12, <2>1, <2>3 DEF x
  <2>4. CASE /\ s = o.str /\ o.str \in StrlikePrefixes
             /\ NextKind(s, prevs) = "StringLiteral" /\ Parse("StringLiteral", s) = Throws
    BY <1>2, <1>9, <1>10, <1>11, <2>4 DEF x
  <2> QED
    BY <1>8, <1>12, <2>2, <2>3, <2>4
<1>13. CASE /\ s = o.str /\ o.str \in StrlikePrefixes
            /\ NextKind(s, prevs) = "StringLiteral" /\ Parse("StringLiteral", s) = Throws
  BY <1>2, <1>9, <1>10, <1>11, <1>13 DEF x
<1> QED
  BY <1>8, <1>12, <1>13

\* The next token at a prefix operator.
LEMMA PrefixStep ==
  ASSUME Types, Placed, NEW i \in 1..Len(written), written[i].class = "prefix", NEW prevs,
         NEW s, s = Past(text, written[i].at)
  PROVE  /\ PunctToken(s, prevs, Len(written[i].str)) /\ ~MatchesGrouping(s, prevs)
         /\ s[1] \notin {"(", ")", "<", ">"}
<1> DEFINE x == written[i].str
<1>1. /\ written[i] \in Lexeme /\ Proper(written[i]) /\ 1 <= Len(x) /\ Len(x) \in Nat
  BY PlacedFacts
<1>2. x \in Unaries
  BY <1>1 DEF Proper
<1>3. Follow(s, x)
  BY FollowAt
<1>4. Begins(s, x) /\ s[1] = x[1]
  BY <1>1, <1>3, FollowStart
<1>5. s[1] \notin {"(", ")", "<", ">"}
  BY <1>1, <1>4, LexemeStart DEF x
<1> HIDE DEF x
<1>6. PunctToken(s, prevs, Len(x)) /\ s[1] \in Marks \cup Word
  <2>1. CASE x \in Keywords
    <3>1. Len(x) \in Nat /\ Len(x) >= 3 /\ \A k \in 1..Len(x) : x[k] \in Word
      BY <2>1, KeywordsSpell
    <3>2. Len(x) \in 1..Len(x)
      BY <3>1
    <3>3. Last(x) \in Word
      BY <3>1, <3>2 DEF Last
    <3>4. ~HasAt(s, Len(x), Word)
      BY <1>3, <3>3 DEF Follow, Apart, HasAt
    <3> QED
      BY <1>3, <2>1, <3>4, KeywordToken
  <2>2. CASE x \in {<<"+">>, <<"-">>, <<"~">>, <<"!">>, <<"*">>, <<"&">>}
    <3>1. \A m \in {"+", "-", "~", "!", "*", "&"} : m \in Marks \ {"."} /\ <<m>> \in OtherOnes
      <4>1. \A m \in {"+", "-", "~", "!", "*", "&"} : m \in Marks \ {"."}
        BY DEF Marks
      <4>2. \A m \in {"+", "-", "~", "!", "*", "&"} : <<m>> \in OtherOnes
        BY DEF OtherOnes
      <4> QED
        BY <4>1, <4>2
    <3>2. PICK m \in {"+", "-", "~", "!", "*", "&"} : x = <<m>>
      BY <2>2
    <3>3. <<m>> \in Punctuators
      BY <3>1, OperatorForms DEF Punctuators
    <3>4. PunctToken(s, prevs, 1) /\ s[1] = m
      BY <1>3, <3>1, <3>2, <3>3, SingleToken
    <3>5. Len(x) <= 1
      BY <3>1, <3>2, OneMark
    <3> DEFINE l == Len(x)
    <3>6. l \in Nat /\ 1 <= l /\ l <= 1
      BY <1>1, <3>5 DEF x
    <3> HIDE DEF l
    <3>7. l = 1
      BY <3>6
    <3>8. PunctToken(s, prevs, l)
      BY <3>4, <3>7
    <3> QED
      BY <3>1, <3>4, <3>8 DEF l
  <2> QED
    BY <1>2, <2>1, <2>2, AssumedOperators
<1>7. ~MatchesGrouping(s, prevs)
  BY <1>5, <1>6, GroupingStart
<1> QED
  BY <1>5, <1>6, <1>7 DEF PunctToken, x

\* The next token at an operator between operands.
LEMMA InfixStep ==
  ASSUME Types, Placed, Adjacent, NEW i \in 1..Len(written), written[i].class = "infix", NEW prevs,
         NEW s, s = Past(text, written[i].at)
  PROVE  /\ PunctToken(s, prevs, Len(written[i].str))
         /\ s[1] = written[i].str[1] /\ s[1] \notin {"(", ")"}
         /\ MatchesGrouping(s, prevs) =>
              /\ written[i].str[1] \in {"<", ">"}
              /\ Len(written[i].str) > 1 => Past(written[i].str, 1) \in Residues
<1> DEFINE x == written[i].str
           v == written[i + 1]
<1>1. /\ written[i] \in Lexeme /\ Proper(written[i]) /\ 1 <= Len(x) /\ Len(x) \in Nat
  BY PlacedFacts
<1>2. x \in Infixes
  BY <1>1 DEF Proper
<1>3. Follow(s, x) /\ \A C : HasAt(s, Len(x), C) => Space \in C \/ (i < Len(written) /\ v.str[1] \in C)
  BY FollowAt
<1>4. x \in BinaryOperators \ {<<".", "*">>}
  BY <1>2, AssumedOperators
<1>5. ASSUME x[1] = "." PROVE ~HasAt(s, 1, Digits)
  <2>1. x = <<".">> /\ x \in Members
    BY <1>2, <1>5, DotInfix
  <2>2. Len(x) <= 1
    BY <2>1, OneMark, RelationalMarks
  <2>3. i < Len(written) => v.str[1] \notin Digits
    <3> SUFFICES ASSUME i < Len(written) PROVE v.str[1] \notin Digits
      OBVIOUS
    <3>1. i \in 1..Len(written) - 1 /\ i + 1 \in 1..Len(written) /\ v \in Lexeme /\ Proper(v)
      BY TypeFacts
    <3>2. v.class = "operand" /\ v.kind = "Identifier"
      BY <2>1, <3>1, AdjacentFacts DEF Neighbours
    <3> QED
      BY <3>1, <3>2, LexemeStart
  <2>4. Space \notin Digits
    BY MarkFacts DEF Word
  <2>5. ~HasAt(s, Len(x), Digits)
    BY <1>3, <2>3, <2>4
  <2> DEFINE l == Len(x)
  <2>6. l \in Nat /\ 1 <= l /\ l <= 1 /\ ~HasAt(s, l, Digits)
    BY <1>1, <2>2, <2>5
  <2> HIDE DEF l
  <2>7. l = 1
    BY <2>6
  <2> QED
    BY <2>6, <2>7
<1> QED
  BY <1>3, <1>4, <1>5, InfixToken

\* No binary operator starts with a bracket.
LEMMA NoBinaryBracket ==
  ASSUME NEW s \in Seq(Character), s # <<>>, s[1] \in {"(", ")"}, NEW prevs
  PROVE  NextKind(s, prevs) # "BinaryOperator"
<1>1. ASSUME NEW op \in BinaryOperators PROVE op \in Seq(Character) /\ ~Begins(s, op)
  <2>1. op \in Seq(Character) /\ Len(op) \in Nat /\ 1 <= Len(op)
    BY MarksSpell
  <2>2. op[1] \notin {"(", ")"}
    <3>1. op \in BinaryOnes => op[1] \notin {"(", ")"}
      BY DEF BinaryOnes
    <3>2. op \in BinaryTwos => op[1] \notin {"(", ")"}
      BY DEF BinaryTwos
    <3>3. op \in BinaryThrees => op[1] \notin {"(", ")"}
      BY DEF BinaryThrees
    <3> QED
      BY <3>1, <3>2, <3>3, BinaryForms
  <2>3. Begins(s, op) => s[1] = op[1]
    <3>1. 1 \in 1..Len(op)
      BY <2>1
    <3> QED
      BY <3>1 DEF Begins
  <2> QED
    BY <2>1, <2>2, <2>3
<1>2. Munch(s, BinaryOperators) = <<>>
  BY <1>1, MunchNone
<1>3. ~MatchesBinaryOperator(s, prevs)
  BY <1>2 DEF MatchesBinaryOperator
<1>4. ~Matches(Kinds[13], s, prevs)
  BY <1>3, MatchesNames, Zenon
<1>5. 13 \in 1..14 /\ Kinds[13] = "BinaryOperator"
  BY KindNames
<1>6. NextKind(s, prevs) # Kinds[13]
  BY <1>4, <1>5, KindAt
<1> QED
  BY <1>5, <1>6

\* The next token at a bracket.
LEMMA BracketStep ==
  ASSUME Types, Placed, NEW i \in 1..Len(written), NEW m \in {"(", ")", "<", ">"},
         written[i].str = <<m>>, NEW prevs, NEW s, s = Past(text, written[i].at)
  PROVE  /\ PunctToken(s, prevs, 1) /\ s[1] = m
         /\ m \in {"(", ")"} => NextKind(s, prevs) # "BinaryOperator"
<1> DEFINE x == <<m>>
<1>1. m \in Marks \ {"."} /\ x \in Punctuators
  BY RelationalMarks, RelationalPunctuators
<1>2. Follow(s, x)
  BY FollowAt
<1>3. PunctToken(s, prevs, 1) /\ s[1] = m
  BY <1>1, <1>2, SingleToken
<1>4. 1 <= Len(x)
  BY <1>1, OneMark
<1> HIDE DEF x
<1>5. s \in Seq(Character) /\ s # <<>>
  BY <1>2, <1>4, FollowStart
<1> QED
  BY <1>3, <1>5, NoBinaryBracket

----------------------------------------------------------------------------
(* One more token.                                                         *)

\* What one more token adds to a count.
LEMMA CountNext ==
  ASSUME NEW prevs \in Seq(LexedToken), NEW t, NEW kind, NEW c, t \in LexedToken
  PROVE  /\ Count(prevs, kind, c) \in Nat
         /\ Count(Append(prevs, t), kind, c) =
              Count(prevs, kind, c) + (IF Is(t, kind, c) THEN 1 ELSE 0)
         /\ Count(prevs, kind, c) > 0 <=> \E i \in 1..Len(prevs) : Is(prevs[i], kind, c)
<1> DEFINE n == Len(prevs)
           after == Append(prevs, t)
           S == {i \in 1..n : Is(prevs[i], kind, c)}
           S2 == {i \in 1..n + 1 : Is(after[i], kind, c)}
<1>1. n \in Nat /\ after \in Seq(LexedToken) /\ Len(after) = n + 1 /\ after[n + 1] = t
      /\ \A i \in 1..n : after[i] = prevs[i]
  OBVIOUS
<1>2. Count(prevs, kind, c) = Cardinality(S)
  <2>1. DOMAIN prevs = 1..n
    BY <1>1
  <2> QED
    BY <2>1 DEF Count
<1>3. Count(after, kind, c) = Cardinality(S2)
  <2>1. DOMAIN after = 1..n + 1
    BY <1>1
  <2> QED
    BY <2>1 DEF Count
<1> HIDE DEF n, after
<1>4. S \in SUBSET (1..n)
  OBVIOUS
<1>5. Cardinality(S) \in Nat /\ Cardinality(S \cup {n + 1}) = Cardinality(S) + 1 /\ (S # {} <=> Cardinality(S) > 0)
  BY <1>1, <1>4, SetBelow
<1>6. 1..n + 1 = (1..n) \cup {n + 1}
  BY <1>1
<1>7. (Is(t, kind, c) => S2 = S \cup {n + 1}) /\ (~Is(t, kind, c) => S2 = S)
  BY <1>1, <1>6
<1>8. S # {} <=> \E i \in 1..n : Is(prevs[i], kind, c)
  OBVIOUS
<1> HIDE DEF S, S2
<1>9. Cardinality(S2) = Cardinality(S) + (IF Is(t, kind, c) THEN 1 ELSE 0)
  <2>1. CASE Is(t, kind, c)
    <3>1. Cardinality(S2) = Cardinality(S) + 1
      BY <1>5, <1>7, <2>1
    <3> QED
      BY <2>1, <3>1
  <2>2. CASE ~Is(t, kind, c)
    <3>1. Cardinality(S2) = Cardinality(S)
      BY <1>7, <2>2
    <3>2. Cardinality(S2) = Cardinality(S) + 0
      BY <1>5, <3>1
    <3> QED
      BY <2>2, <3>2
  <2> QED
    BY <2>1, <2>2
<1>10. Count(prevs, kind, c) > 0 <=> \E i \in 1..n : Is(prevs[i], kind, c)
  BY <1>2, <1>5, <1>8
<1> QED
  BY <1>2, <1>3, <1>5, <1>9, <1>10 DEF after, n

\* The tokenizer reads one more token.
Reads(t) ==
  /\ t \in LexedToken /\ pos <= t.at
  /\ tokens' = Append(tokens, t) /\ pos' = End(t)
  /\ UNCHANGED <<written, open, text, top, phase, args>>

\* What a token is.
LEMMA TokenFacts ==
  ASSUME NEW t \in LexedToken
  PROVE  /\ t.kind \in KindSet /\ t.str \in Seq(Character) /\ t.str # <<>> /\ t.at \in Nat
         /\ Len(t.str) \in Nat /\ 1 <= Len(t.str)
         /\ End(t) = t.at + Len(t.str) /\ End(t) \in Nat
<1>1. /\ t.kind \in KindSet /\ t.str \in Seq(Character) \ {<<>>} /\ t.at \in Nat
  BY DEF LexedToken
<1>2. \A x \in Seq(Character) : x # <<>> => Len(x) \in Nat /\ 1 <= Len(x)
  OBVIOUS
<1>3. Len(t.str) \in Nat /\ 1 <= Len(t.str)
  BY <1>1, <1>2
<1>4. End(t) = t.at + Len(t.str)
  BY DEF End
<1> QED
  BY <1>1, <1>3, <1>4

\* The tokens with one more.
LEMMA ReadsFacts ==
  ASSUME Types, NEW t, Reads(t)
  PROVE  /\ tokens' \in Seq(LexedToken) /\ Len(tokens') = Len(tokens) + 1 /\ Len(tokens) \in Nat
         /\ \A j \in 1..Len(tokens) : tokens'[j] = tokens[j] /\ tokens[j] \in LexedToken
         /\ tokens'[Len(tokens) + 1] = t
<1>1. tokens \in Seq(LexedToken) /\ t \in LexedToken /\ tokens' = Append(tokens, t)
  BY TypeFacts DEF Reads
<1> QED
  BY <1>1

\* Reading leaves the condition as it is,
LEMMA ReadsShape ==
  ASSUME Shape, NEW t, Reads(t)
  PROVE  Shape'
<1>1. Types
  BY DEF Shape
<1>2. tokens' \in Seq(LexedToken) /\ pos' \in Nat
  BY <1>1, ReadsFacts, TokenFacts DEF Reads
<1>3. UNCHANGED <<written, open, text, top, phase>>
  BY DEF Reads
<1>4. Types'
  BY <1>1, <1>2, <1>3 DEF Types, Proper
<1>5. Placed'
  <2>1. Placed
    BY DEF Shape
  <2> QED
    BY <1>3, <2>1 DEF Placed, End
<1>6. Adjacent'
  <2>1. Adjacent /\ (Class' = Class)
    BY <1>3 DEF Shape, Class
  <2> QED
    BY <1>3, <2>1 DEF Adjacent, Neighbours
<1>7. Templates'
  <2>1. Templates /\ (InTemplate' <=> InTemplate) /\ \A i : IsOpenTemplate(i)' <=> IsOpenTemplate(i)
    BY <1>3 DEF Shape, InTemplate, IsOpenTemplate
  <2> QED
    BY <1>3, <2>1 DEF Templates
<1>8. Balance'
  <2>1. Balance
    BY DEF Shape
  <2> QED
    BY <1>3, <2>1 DEF Balance, Opened, Closed, Pending
<1> QED
  BY <1>4, <1>5, <1>6, <1>7, <1>8 DEF Shape

\* and puts the token behind all others.
LEMMA ReadsOrdered ==
  ASSUME Types, Ordered, NEW t, Reads(t)
  PROVE  Ordered'
<1> DEFINE M == Len(tokens)
<1>1. /\ Len(tokens') = M + 1 /\ M \in Nat
      /\ \A j \in 1..M : tokens'[j] = tokens[j] /\ tokens[j] \in LexedToken
      /\ tokens'[M + 1] = t
  BY ReadsFacts
<1>2. \A j \in 1..M : End(tokens[j]) \in Nat
  BY <1>1, TokenFacts
<1>3. End(t) \in Nat /\ t.at \in Nat /\ t.at <= End(t) /\ pos <= t.at /\ pos \in Nat /\ pos' = End(t)
  <2>1. t \in LexedToken /\ pos <= t.at /\ pos' = End(t)
    BY DEF Reads
  <2> QED
    <3>1. pos \in Nat
      BY TypeFacts
    <3>2. t.at \in Nat /\ Len(t.str) \in Nat /\ End(t) = t.at + Len(t.str) /\ End(t) \in Nat
      BY <2>1, TokenFacts
    <3> DEFINE l == Len(t.str)
               e == End(t)
    <3>3. l \in Nat /\ e = t.at + l
      BY <3>2
    <3> HIDE DEF l, e
    <3>4. t.at <= e
      BY <3>2, <3>3
    <3> QED
      BY <2>1, <3>1, <3>2, <3>4 DEF e
<1>4. (\A j \in 1..M : End(tokens[j]) <= pos) /\ \A j, k \in 1..M : j < k => End(tokens[j]) <= tokens[k].at
  BY DEF Ordered
<1> HIDE DEF M
<1>5. \A j \in 1..M + 1 : End(tokens'[j]) <= pos'
  <2> SUFFICES ASSUME NEW j \in 1..M + 1 PROVE End(tokens'[j]) <= pos'
    OBVIOUS
  <2>1. CASE j \in 1..M
    BY <1>1, <1>2, <1>3, <1>4, <2>1
  <2>2. CASE j = M + 1
    BY <1>1, <1>3, <2>2
  <2> QED
    BY <1>1, <2>1, <2>2
<1>6. \A j, k \in 1..M + 1 : j < k => End(tokens'[j]) <= tokens'[k].at
  <2> SUFFICES ASSUME NEW j \in 1..M + 1, NEW k \in 1..M + 1, j < k PROVE End(tokens'[j]) <= tokens'[k].at
    OBVIOUS
  <2>1. j \in 1..M
    BY <1>1
  <2>2. CASE k \in 1..M
    BY <1>1, <1>4, <2>1, <2>2
  <2>3. CASE k = M + 1
    BY <1>1, <1>2, <1>3, <1>4, <2>1, <2>3
  <2> QED
    BY <1>1, <2>2, <2>3
<1> QED
  BY <1>1, <1>5, <1>6 DEF Ordered, End

\* What stays true as tokens are added.
LEMMA ReadsMore ==
  ASSUME Types, NEW t, Reads(t)
  PROVE  /\ \A i : Own(i) => Own(i)'
         /\ TemplateMistaken => TemplateMistaken'
         /\ \A i \in 1..Len(written) :
              (/\ t.str = written[i].str /\ t.at = written[i].at
               /\ written[i].class = "operand" => t.kind = written[i].kind)
                => Own(i)'
         /\ \A i \in 1..Len(written) :
              written[i].class = "infix" /\ written[i].str[1] = "<" /\ t.at = written[i].at
                /\ t.kind = "Grouping" => TemplateMistaken'
<1> DEFINE M == Len(tokens)
<1>1. /\ Len(tokens') = M + 1 /\ M \in Nat
      /\ \A j \in 1..M : tokens'[j] = tokens[j]
      /\ tokens'[M + 1] = t /\ tokens' \in Seq(LexedToken) /\ tokens \in Seq(LexedToken)
  BY ReadsFacts, TypeFacts
<1>2. written' = written /\ DOMAIN tokens = 1..M /\ DOMAIN tokens' = 1..M + 1
      /\ DOMAIN written = 1..Len(written)
  BY <1>1, TypeFacts DEF Reads
<1>3. M + 1 \in 1..M + 1 /\ \A j \in 1..M : j \in 1..M + 1
  BY <1>1
<1> HIDE DEF M
<1>4. \A i : Own(i) => Own(i)'
  BY <1>1, <1>2, <1>3 DEF Own, M
<1>5. TemplateMistaken => TemplateMistaken'
  BY <1>1, <1>2, <1>3 DEF TemplateMistaken
<1>6. ASSUME NEW i \in 1..Len(written), t.str = written[i].str, t.at = written[i].at,
             written[i].class = "operand" => t.kind = written[i].kind
      PROVE  Own(i)'
  <2>1. M + 1 \in 1..Len(tokens')
    BY <1>1, <1>3
  <2> QED
    BY <1>1, <1>2, <1>6, <2>1 DEF Own
<1>7. ASSUME NEW i \in 1..Len(written), written[i].class = "infix", written[i].str[1] = "<", t.at = written[i].at,
             t.kind = "Grouping"
      PROVE  TemplateMistaken'
  BY <1>1, <1>2, <1>3, <1>7 DEF TemplateMistaken
<1> QED
  BY <1>4, <1>5, <1>6, <1>7

----------------------------------------------------------------------------
(* One round of parse_all.                                                 *)

\* An unknown kind is none of the kinds.
LEMMA UnknownNoKind ==
  /\ "Unknown" \notin KindSet
  /\ "Grouping" \in KindSet /\ "BinaryOperator" \in KindSet /\ "Operator" \in KindSet
<1>1. /\ Kinds[1] # "Unknown" /\ Kinds[2] # "Unknown" /\ Kinds[3] # "Unknown" /\ Kinds[4] # "Unknown"
      /\ Kinds[5] # "Unknown" /\ Kinds[6] # "Unknown" /\ Kinds[7] # "Unknown" /\ Kinds[8] # "Unknown"
      /\ Kinds[9] # "Unknown" /\ Kinds[10] # "Unknown" /\ Kinds[11] # "Unknown" /\ Kinds[12] # "Unknown"
      /\ Kinds[13] # "Unknown" /\ Kinds[14] # "Unknown"
  BY KindNames
<1>2. \A i \in 1..14 : \/ i = 1 \/ i = 2 \/ i = 3 \/ i = 4 \/ i = 5 \/ i = 6 \/ i = 7
                       \/ i = 8 \/ i = 9 \/ i = 10 \/ i = 11 \/ i = 12 \/ i = 13 \/ i = 14
  OBVIOUS
<1>3. \A i \in 1..14 : Kinds[i] # "Unknown"
  BY <1>1, <1>2
<1>4. 12 \in 1..14 /\ 13 \in 1..14 /\ 14 \in 1..14
  OBVIOUS
<1> QED
  BY <1>3, <1>4, KindNames DEF KindSet

\* The first characters of a text.
LEMMA Taken ==
  ASSUME NEW s \in Seq(Character), NEW p \in Nat, 1 <= p, p <= Len(s)
  PROVE  /\ SubSeq(s, 1, p) \in Seq(Character) \ {<<>>}
         /\ Len(SubSeq(s, 1, p)) = p
         /\ \A k \in 1..p : SubSeq(s, 1, p)[k] = s[k]
<1>1. \A i \in 1..p : s[i] \in Character
  OBVIOUS
<1>2. /\ SubSeq(s, 1, p) \in Seq(Character)
      /\ Len(SubSeq(s, 1, p)) = IF 1 <= p THEN p - 1 + 1 ELSE 0
      /\ \A i \in 1..p - 1 + 1 : SubSeq(s, 1, p)[i] = s[1 + i - 1]
  BY <1>1, SubSeqProperties
<1>3. Len(SubSeq(s, 1, p)) = p
  <2> DEFINE l == Len(SubSeq(s, 1, p))
  <2>1. l = IF 1 <= p THEN p - 1 + 1 ELSE 0
    BY <1>2
  <2> HIDE DEF l
  <2>2. l = p
    BY <2>1
  <2> QED
    BY <2>2 DEF l
<1>4. \A k \in 1..p : SubSeq(s, 1, p)[k] = s[k]
  <2>1. \A k \in 1..p : k \in 1..p - 1 + 1 /\ 1 + k - 1 = k
    OBVIOUS
  <2> QED
    BY <1>2, <2>1
<1>5. SubSeq(s, 1, p) # <<>>
  <2> DEFINE q == SubSeq(s, 1, p)
  <2>1. Len(q) >= 1
    BY <1>3
  <2>2. q \in Seq(Character)
    BY <1>2
  <2> HIDE DEF q
  <2>3. q # <<>>
    BY <2>1, <2>2
  <2> QED
    BY <2>3 DEF q
<1> QED
  BY <1>2, <1>3, <1>4, <1>5

\* As many characters as x has, of a text that begins with x, are x.
LEMMA TakenWhole ==
  ASSUME NEW s, NEW x, Begins(s, x), NEW p \in Nat, 1 <= p, p <= Len(x), p >= Len(x)
  PROVE  SubSeq(s, 1, p) = x
<1> DEFINE q == SubSeq(s, 1, p)
           l == Len(x)
<1>1. s \in Seq(Character) /\ x \in Seq(Character) /\ l \in Nat /\ l <= Len(s) /\ \A k \in 1..l : s[k] = x[k]
  BY DEF Begins
<1>2. p = l
  <2>1. p <= l /\ p >= l /\ l \in Nat
    BY <1>1
  <2> HIDE DEF l
  <2> QED
    BY <2>1
<1>3. p <= Len(s)
  BY <1>1, <1>2
<1>4. q \in Seq(Character) /\ Len(q) = p /\ \A k \in 1..p : q[k] = s[k]
  BY <1>1, <1>3, Taken
<1> HIDE DEF q
<1>5. \A k \in 1..Len(q) : q[k] = x[k]
  BY <1>1, <1>2, <1>4
<1>6. Len(q) = Len(x)
  BY <1>2, <1>4 DEF l
<1>7. q = x
  BY <1>1, <1>4, <1>5, <1>6, SeqEqual
<1> QED
  BY <1>7 DEF q

\* A round of parse_all, in terms of what the matchers and parsers say.
LEMMA TokenTaken ==
  ASSUME Types, Token, NEW s, s = Past(text, BlanksEnd), s \in Seq(Character), BlanksEnd \in Nat, pos <= BlanksEnd,
         NextKind(s, tokens) \in KindSet, ~GroupingThrows(s, tokens)
  PROVE  /\ Parse(NextKind(s, tokens), s) = Throws =>
              phase' = "rejected" /\ UNCHANGED <<written, open, text, top, args, tokens, pos>>
         /\ \A p \in Nat : p = Parse(NextKind(s, tokens), s) /\ 1 <= p /\ p <= Len(s) =>
              \E t : /\ Reads(t) /\ t.kind = NextKind(s, tokens) /\ t.at = BlanksEnd
                     /\ t.str = SubSeq(s, 1, p) /\ End(t) = BlanksEnd + p
                     /\ phase' = "tokenize"
<1> DEFINE kind == NextKind(s, tokens)
           b == BlanksEnd
           len == IF kind = "Unknown" \/ GroupingThrows(s, tokens) THEN Throws ELSE Parse(kind, s)
<1>1. /\ phase = "tokenize"
      /\ IF len = Throws
         THEN phase' = "rejected" /\ UNCHANGED <<tokens, pos>>
         ELSE /\ tokens' = Append(tokens, [kind |-> kind, str |-> SubSeq(s, 1, len), at |-> b])
              /\ pos' = b + len
              /\ UNCHANGED phase
      /\ UNCHANGED <<written, open, spaced, text, top, args>>
  BY Zenon DEF Token
<1>2. kind # "Unknown"
  BY UnknownNoKind
<1>3. len = Parse(kind, s)
  BY <1>2
<1> HIDE DEF len, kind, b
<1>4. Parse(kind, s) = Throws =>
        phase' = "rejected" /\ UNCHANGED <<written, open, text, top, args, tokens, pos>>
  BY <1>1, <1>3
<1>5. ASSUME NEW p \in Nat, p = Parse(kind, s), 1 <= p, p <= Len(s)
      PROVE  \E t : /\ Reads(t) /\ t.kind = kind /\ t.at = b
                    /\ t.str = SubSeq(s, 1, p) /\ End(t) = b + p /\ phase' = "tokenize"
  <2> DEFINE str == SubSeq(s, 1, p)
             t == [kind |-> kind, str |-> str, at |-> b]
  <2>1. len = p /\ len # Throws
    BY <1>3, <1>5 DEF Throws
  <2>2. str \in Seq(Character) \ {<<>>} /\ Len(str) = p
    BY <1>5, Taken
  <2>3. tokens' = Append(tokens, t) /\ pos' = b + p /\ UNCHANGED <<written, open, text, top, phase, args>>
    BY <1>1, <2>1
  <2> HIDE DEF str
  <2>4. t \in LexedToken
    BY <2>2 DEF LexedToken, kind, b
  <2>5. t.kind = kind /\ t.str = str /\ t.at = b
    OBVIOUS
  <2> HIDE DEF t
  <2>6. End(t) = b + p
    BY <2>2, <2>5 DEF End
  <2>7. Reads(t)
    <3>1. pos <= t.at
      BY <2>5 DEF b
    <3> QED
      BY <2>3, <2>4, <2>6, <3>1 DEF Reads
  <2> QED
    BY <1>1, <2>3, <2>5, <2>6, <2>7 DEF str
<1> QED
  BY <1>4, <1>5 DEF kind, b

\* The first character of a text.
LEMMA OneTaken ==
  ASSUME NEW s \in Seq(Character), s # <<>>
  PROVE  Begins(s, <<s[1]>>) /\ SubSeq(s, 1, 1) = <<s[1]>>
<1> DEFINE c == s[1]
           x == <<c>>
<1>1. Len(s) \in Nat /\ 1 <= Len(s) /\ c \in Character
  <2>1. Len(s) \in Nat /\ 1 <= Len(s)
    OBVIOUS
  <2>2. 1 \in 1..Len(s)
    BY <2>1
  <2> QED
    BY <2>1, <2>2
<1> HIDE DEF c
<1>2. x \in Seq(Character) /\ Len(x) \in Nat /\ 1 <= Len(x) /\ Len(x) <= 1 /\ x[1] = c
  BY <1>1, One
<1> HIDE DEF x
<1>3. Len(x) <= Len(s)
  BY <1>1, <1>2
<1>4. ASSUME NEW k \in 1..Len(x) PROVE s[k] = x[k]
  <2>1. k = 1
    BY <1>2
  <2> QED
    BY <1>2, <2>1 DEF c
<1>5. Begins(s, x)
  BY <1>2, <1>3, <1>4 DEF Begins
<1>6. SubSeq(s, 1, 1) = x
  <2>1. 1 <= Len(x) /\ 1 >= Len(x) /\ 1 \in Nat /\ 1 <= 1
    BY <1>2
  <2> QED
    BY <1>5, <2>1, TakenWhole
<1> QED
  BY <1>5, <1>6 DEF x, c

\* The token that a bracket or the operator x becomes.
PunctRead(t, s, x) ==
  /\ Reads(t) /\ t.at = BlanksEnd /\ phase' = "tokenize"
  /\ \/ /\ t.kind = "Grouping" /\ MatchesGrouping(s, tokens)
        /\ End(t) = BlanksEnd + 1 /\ t.str = <<s[1]>>
     \/ /\ t.kind = NextKind(s, tokens) /\ t.kind \in {"BinaryOperator", "Operator"}
        /\ ~MatchesGrouping(s, tokens)
        /\ End(t) = BlanksEnd + Len(x) /\ t.str = x

\* A round that finds a bracket or an operator.
LEMMA PunctReads ==
  ASSUME Types, Token, NEW s, s = Past(text, BlanksEnd), BlanksEnd \in Nat, pos <= BlanksEnd,
         NEW x, Begins(s, x), 1 <= Len(x), PunctToken(s, tokens, Len(x)), ~GroupingThrows(s, tokens)
  PROVE  \E t : PunctRead(t, s, x)
<1> DEFINE kind == NextKind(s, tokens)
           b == BlanksEnd
           l == Len(x)
<1>1. s \in Seq(Character) /\ x \in Seq(Character) /\ l \in Nat /\ 1 <= l /\ l <= Len(s) /\ s # <<>>
  BY DEF Begins
<1>2. kind \in KindSet
  BY UnknownNoKind DEF PunctToken
<1>3. \A p \in Nat : p = Parse(kind, s) /\ 1 <= p /\ p <= Len(s) =>
              \E t : /\ Reads(t) /\ t.kind = kind /\ t.at = b
                     /\ t.str = SubSeq(s, 1, p) /\ End(t) = b + p
                     /\ phase' = "tokenize"
  BY <1>1, <1>2, TokenTaken
<1>4. CASE kind = "Grouping" /\ MatchesGrouping(s, tokens) /\ Parse(kind, s) = 1
  <2>1. 1 \in Nat /\ 1 <= 1 /\ 1 <= Len(s)
    BY <1>1
  <2>2. PICK t : Reads(t) /\ t.kind = kind /\ t.at = b /\ t.str = SubSeq(s, 1, 1) /\ End(t) = b + 1
                 /\ phase' = "tokenize"
    BY <1>3, <1>4, <2>1
  <2>3. SubSeq(s, 1, 1) = <<s[1]>>
    BY <1>1, OneTaken
  <2> QED
    BY <1>4, <2>2, <2>3 DEF PunctRead
<1>5. CASE /\ kind \in {"BinaryOperator", "Operator"} /\ ~MatchesGrouping(s, tokens)
           /\ Parse(kind, s) <= l /\ Parse(kind, s) >= l /\ Parse(kind, s) \in Nat
  <2> DEFINE p == Parse(kind, s)
  <2>1. p \in Nat /\ p <= l /\ p >= l
    BY <1>5
  <2> HIDE DEF p, l
  <2>2. p = l /\ 1 <= p /\ p <= Len(s)
    BY <1>1, <2>1
  <2>3. PICK t : Reads(t) /\ t.kind = kind /\ t.at = b /\ t.str = SubSeq(s, 1, p) /\ End(t) = b + p
                 /\ phase' = "tokenize"
    BY <1>3, <2>1, <2>2 DEF p
  <2>4. SubSeq(s, 1, p) = x
    BY <2>1, <2>2, TakenWhole DEF l
  <2> QED
    BY <1>5, <2>2, <2>3, <2>4 DEF l, PunctRead
<1> QED
  BY <1>4, <1>5 DEF PunctToken

\* A round at an operand reads it, or rejects the condition.
LEMMA OperandReads ==
  ASSUME Types, Placed, Adjacent, Token, NEW i \in 1..Len(written), written[i].class = "operand",
         BlanksEnd = written[i].at, pos <= written[i].at
  PROVE  \/ /\ phase' = "rejected" /\ UNCHANGED <<written, open, text, top, args, tokens, pos>>
            /\ \/ written[i].kind = "FloatHexLiteral" /\ Fraction(written[i].str)
               \/ i = Len(written) /\ written[i].str \in StrlikePrefixes
         \/ \E t : /\ Reads(t) /\ t.kind = written[i].kind /\ t.str = written[i].str
                   /\ t.at = written[i].at /\ End(t) = End(written[i]) /\ phase' = "tokenize"
<1> DEFINE s == Past(text, written[i].at)
           x == written[i].str
           l == Len(x)
           kind == NextKind(s, tokens)
           p == Parse(kind, s)
<1>1. /\ kind \in KindSet /\ s[1] \notin {"(", ")", "<", ">"}
      /\ \/ /\ kind = written[i].kind /\ p <= l /\ p >= l /\ p \in Nat
         \/ /\ p = Throws
            /\ \/ written[i].kind = "FloatHexLiteral" /\ Fraction(written[i].str)
               \/ i = Len(written) /\ written[i].str \in StrlikePrefixes
  BY OperandStep
<1>2. /\ s \in Seq(Character) /\ Follow(s, x)
  BY FollowAt
<1>3. /\ written[i].at \in Nat /\ l \in Nat /\ 1 <= l /\ End(written[i]) = written[i].at + l
  BY PlacedFacts
<1>4. Begins(s, x) /\ l <= Len(s)
  BY <1>2 DEF Follow, Begins
<1>5. ~GroupingThrows(s, tokens)
  BY <1>1 DEF GroupingThrows
<1>6. /\ p = Throws =>
              phase' = "rejected" /\ UNCHANGED <<written, open, text, top, args, tokens, pos>>
      /\ \A q \in Nat : q = p /\ 1 <= q /\ q <= Len(s) =>
              \E t : /\ Reads(t) /\ t.kind = kind /\ t.at = written[i].at
                     /\ t.str = SubSeq(s, 1, q) /\ End(t) = written[i].at + q
                     /\ phase' = "tokenize"
  BY <1>1, <1>2, <1>3, <1>5, TokenTaken
<1>7. CASE p = Throws /\ \/ written[i].kind = "FloatHexLiteral" /\ Fraction(written[i].str)
                         \/ i = Len(written) /\ written[i].str \in StrlikePrefixes
  BY <1>6, <1>7
<1>8. CASE kind = written[i].kind /\ p <= l /\ p >= l /\ p \in Nat
  <2>1. SubSeq(s, 1, p) = x
    <3>1. 1 <= p
      <4>1. p \in Nat /\ l \in Nat /\ p >= l /\ 1 <= l
        BY <1>3, <1>8
      <4> HIDE DEF p, l
      <4> QED
        BY <4>1
    <3> QED
      BY <1>4, <1>8, <3>1, TakenWhole
  <2>2. p \in Nat /\ p = l /\ 1 <= p /\ p <= Len(s)
    <3>1. p \in Nat /\ p <= l /\ p >= l
      BY <1>8
    <3>2. Len(s) \in Nat /\ l <= Len(s) /\ l \in Nat /\ 1 <= l
      BY <1>2, <1>3, <1>4
    <3> HIDE DEF p, l, s
    <3> QED
      BY <3>1, <3>2
  <2>3. PICK t : Reads(t) /\ t.kind = kind /\ t.at = written[i].at /\ t.str = SubSeq(s, 1, p)
                 /\ End(t) = written[i].at + p /\ phase' = "tokenize"
    BY <1>6, <2>2
  <2>4. End(t) = End(written[i])
    BY <1>3, <2>2, <2>3
  <2> QED
    BY <1>8, <2>1, <2>3, <2>4
<1> QED
  BY <1>1, <1>7, <1>8

----------------------------------------------------------------------------
(* The counts of brackets.                                                 *)

\* How one more token changes the counts.
LEMMA CountReads ==
  ASSUME Types, NEW t, Reads(t), NEW kind, NEW c
  PROVE  /\ Count(tokens, kind, c) \in Nat
         /\ Count(tokens', kind, c) = Count(tokens, kind, c) + (IF Is(t, kind, c) THEN 1 ELSE 0)
         /\ Count(tokens, kind, c) > 0 <=> \E j \in 1..Len(tokens) : Is(tokens[j], kind, c)
<1>1. tokens \in Seq(LexedToken) /\ t \in LexedToken /\ tokens' = Append(tokens, t)
  BY TypeFacts DEF Reads
<1>2. /\ Count(tokens, kind, c) \in Nat
      /\ Count(Append(tokens, t), kind, c) =
            Count(tokens, kind, c) + (IF Is(t, kind, c) THEN 1 ELSE 0)
      /\ Count(tokens, kind, c) > 0 <=> \E j \in 1..Len(tokens) : Is(tokens[j], kind, c)
  BY <1>1, CountNext
<1>3. Count(tokens', kind, c) = Count(Append(tokens, t), kind, c)
  BY <1>1
<1> QED
  BY <1>2, <1>3, Zenon

\* Reading leaves the brackets of the condition.
LEMMA OpenedReads ==
  ASSUME Types, NEW t, Reads(t), NEW n \in Nat
  PROVE  Opened(n)' = Opened(n) /\ Closed(n)' = Closed(n)
<1>1. written' = written
  BY DEF Reads
<1> QED
  BY <1>1 DEF Opened, Closed

\* The round brackets by name.
IsOpen(w) == w.class = "open" /\ w.str = <<"(">>
IsClose(w) == w.class = "close" /\ w.str = <<")">>

\* A token that is no round bracket keeps the count of them.
LEMMA BracketsSame ==
  ASSUME Types, NEW n \in Nat, Brackets(n), NEW t, Reads(t), t.str[1] \notin {"(", ")"}
  PROVE  Brackets(n)'
<1>1. \A kind : \A c \in {"(", ")"} : ~Is(t, kind, c)
  <2> SUFFICES ASSUME NEW kind, NEW c \in {"(", ")"}, Is(t, kind, c) PROVE FALSE
    OBVIOUS
  <2>1. t.str = <<c>>
    BY DEF Is
  <2>2. t.str[1] = c
    BY <2>1
  <2> QED
    BY <2>2
<1>2. \A kind : \A c \in {"(", ")"} : Count(tokens', kind, c) = Count(tokens, kind, c)
  <2> SUFFICES ASSUME NEW kind, NEW c \in {"(", ")"} PROVE Count(tokens', kind, c) = Count(tokens, kind, c)
    OBVIOUS
  <2>1. Count(tokens, kind, c) \in Nat
        /\ Count(tokens', kind, c) = Count(tokens, kind, c) + (IF Is(t, kind, c) THEN 1 ELSE 0)
    BY CountReads
  <2>2. Count(tokens', kind, c) = Count(tokens, kind, c) + 0
    BY <1>1, <2>1
  <2> QED
    BY <2>1, <2>2
<1>3. Opened(n)' = Opened(n) /\ Closed(n)' = Closed(n)
  BY OpenedReads
<1> QED
  BY <1>2, <1>3 DEF Brackets

\* So does the token of the next lexeme, bracket or not.
LEMMA BracketsNext ==
  ASSUME Types, NEW n \in Nat, NEW i, i = n + 1, i \in 1..Len(written), Brackets(n), NEW t, Reads(t),
         \/ t.str[1] \notin {"(", ")"} /\ ~IsOpen(written[i]) /\ ~IsClose(written[i])
         \/ t.str = <<"(">> /\ t.kind \in {"Operator", "Grouping"} /\ IsOpen(written[i])
         \/ /\ t.str = <<")">> /\ IsClose(written[i])
            /\ \/ t.kind = "Grouping" /\ Count(tokens, "Grouping", "(") > 0
               \/ t.kind = "Operator" /\ Count(tokens, "Operator", ")") < Count(tokens, "Operator", "(")
  PROVE  Brackets(i)'
<1> DEFINE a == Count(tokens, "Operator", "(")
           b == Count(tokens, "Operator", ")")
           g == Count(tokens, "Grouping", "(")
           h == Count(tokens, "Grouping", ")")
           a2 == Count(tokens', "Operator", "(")
           b2 == Count(tokens', "Operator", ")")
           g2 == Count(tokens', "Grouping", "(")
           h2 == Count(tokens', "Grouping", ")")
           o == Cardinality(Opened(n))
           c == Cardinality(Closed(n))
           o2 == Cardinality(Opened(i))
           c2 == Cardinality(Closed(i))
           io == IsOpen(written[i])
           ic == IsClose(written[i])
           da == Is(t, "Operator", "(")
           db == Is(t, "Operator", ")")
           dg == Is(t, "Grouping", "(")
           dh == Is(t, "Grouping", ")")
<1>1. a \in Nat /\ a2 = a + (IF da THEN 1 ELSE 0)
  BY CountReads
<1>2. b \in Nat /\ b2 = b + (IF db THEN 1 ELSE 0)
  BY CountReads
<1>3. g \in Nat /\ g2 = g + (IF dg THEN 1 ELSE 0)
  BY CountReads
<1>4. h \in Nat /\ h2 = h + (IF dh THEN 1 ELSE 0)
  BY CountReads
<1>5. o \in Nat /\ c \in Nat
  BY OpenedFacts
<1>6. o2 = o + (IF io THEN 1 ELSE 0) /\ c2 = c + (IF ic THEN 1 ELSE 0)
  <2>1. /\ Cardinality(Opened(n + 1)) = o + (IF IsOpen(written[n + 1]) THEN 1 ELSE 0)
        /\ Cardinality(Closed(n + 1)) = c + (IF IsClose(written[n + 1]) THEN 1 ELSE 0)
    BY OpenedNext, Zenon DEF IsOpen, IsClose
  <2> QED
    BY <2>1
<1>7. a + g = o /\ b + h = c /\ b <= a /\ (h > 0 => g > 0)
  BY DEF Brackets
<1>8. Opened(i)' = Opened(i) /\ Closed(i)' = Closed(i)
  BY OpenedReads
<1>9. io => ~ic
  BY DEF IsOpen, IsClose
<1>10. \A kind : \A d : Is(t, kind, d) <=> t.kind = kind /\ t.str = <<d>>
  BY DEF Is
<1>11. /\ <<"(">> # <<")">>
       /\ t.str[1] \notin {"(", ")"} => t.str # <<"(">> /\ t.str # <<")">>
  <2> DEFINE p == <<"(">>
             q == <<")">>
  <2>1. p[1] = "(" /\ q[1] = ")"
    OBVIOUS
  <2> HIDE DEF p, q
  <2>2. p # q /\ (t.str[1] \notin {"(", ")"} => t.str # p /\ t.str # q)
    BY <2>1
  <2> QED
    BY <2>2 DEF p, q
<1>12. Brackets(i)' <=> a2 + g2 = o2 /\ b2 + h2 = c2 /\ b2 <= a2 /\ (h2 > 0 => g2 > 0)
  BY <1>8 DEF Brackets
<1>13. CASE t.str[1] \notin {"(", ")"} /\ ~io /\ ~ic
  <2>1. ~da /\ ~db /\ ~dg /\ ~dh
    BY <1>10, <1>11, <1>13
  <2> HIDE DEF a, b, g, h, a2, b2, g2, h2, o, c, o2, c2, io, ic, da, db, dg, dh
  <2>2. a2 = a /\ b2 = b /\ g2 = g /\ h2 = h /\ o2 = o /\ c2 = c
    BY <1>1, <1>2, <1>3, <1>4, <1>5, <1>6, <1>13, <2>1
  <2> QED
    BY <1>7, <1>12, <2>2
<1>14. CASE t.str = <<"(">> /\ t.kind \in {"Operator", "Grouping"} /\ io
  <2>1. ~db /\ ~dh /\ ~ic /\ (da \/ dg) /\ ~(da /\ dg)
    BY <1>9, <1>10, <1>11, <1>14
  <2> HIDE DEF a, b, g, h, a2, b2, g2, h2, o, c, o2, c2, io, ic, da, db, dg, dh
  <2>2. b2 = b /\ h2 = h /\ o2 = o + 1 /\ c2 = c
    BY <1>2, <1>4, <1>5, <1>6, <1>14, <2>1
  <2>3. (a2 = a + 1 /\ g2 = g) \/ (a2 = a /\ g2 = g + 1)
    BY <1>1, <1>3, <2>1
  <2> QED
    BY <1>1, <1>2, <1>3, <1>4, <1>5, <1>7, <1>12, <2>2, <2>3
<1>15. CASE /\ t.str = <<")">> /\ ic
            /\ \/ t.kind = "Grouping" /\ g > 0
               \/ t.kind = "Operator" /\ b < a
  <2>1. ~da /\ ~dg /\ ~io /\ ((dh /\ ~db /\ g > 0) \/ (db /\ ~dh /\ b < a))
    BY <1>9, <1>10, <1>11, <1>15
  <2> HIDE DEF a, b, g, h, a2, b2, g2, h2, o, c, o2, c2, io, ic, da, db, dg, dh
  <2>2. a2 = a /\ g2 = g /\ o2 = o /\ c2 = c + 1
    BY <1>1, <1>3, <1>5, <1>6, <1>15, <2>1
  <2>3. (h2 = h + 1 /\ b2 = b /\ g > 0) \/ (h2 = h /\ b2 = b + 1 /\ b < a)
    BY <1>2, <1>4, <2>1
  <2> QED
    BY <1>1, <1>2, <1>3, <1>4, <1>5, <1>7, <1>12, <2>2, <2>3
<1> QED
  BY <1>13, <1>14, <1>15

\* What follows the start of template arguments.
LEMMA TemplateNext ==
  ASSUME Types, Templates, NEW n \in Nat, NEW i, i = n + 1, i \in 1..Len(written),
         NEW k, k = n - 1 \/ k = n, k >= 1, IsOpenTemplate(k)
  PROVE  \/ k = n /\ written[i].class = "operand"
         \/ k = n - 1 /\ written[i].class = "close" /\ written[i].str = <<">">>
<1> DEFINE g == <<">">>
           N == Len(written)
<1>1. N \in Nat
  BY TypeFacts
<1>2. k \in 1..N
  BY <1>1
<1>3. \A j \in 1..N : IsOpenTemplate(j) =>
        /\ j + 1 <= N => written[j + 1].class = "operand"
        /\ j + 2 <= N => written[j + 2].class = "close" /\ written[j + 2].str = g
  BY DEF Templates
<1> HIDE DEF g, N
<1>4. CASE k = n
  <2>1. k + 1 = i /\ k + 1 <= N
    BY <1>1, <1>4 DEF N
  <2> QED
    BY <1>2, <1>3, <1>4, <2>1
<1>5. CASE k = n - 1
  <2>1. k + 2 = i /\ k + 2 <= N
    BY <1>1, <1>5 DEF N
  <2> QED
    BY <1>2, <1>3, <1>5, <2>1 DEF g
<1> QED
  BY <1>4, <1>5

\* And the count of the brackets of templates is kept.
LEMMA AnglesNext ==
  ASSUME Types, Templates, NEW n \in Nat, NEW i, i = n + 1, i \in 1..Len(written), Angles(n), NEW t, Reads(t),
         \/ TemplateMistaken'
         \/ /\ ~Is(t, "Grouping", "<") /\ ~Is(t, "Grouping", ">")
            /\ ~(written[i].class = "close" /\ written[i].str = <<">">>)
         \/ Is(t, "Grouping", "<") /\ IsOpenTemplate(i)
         \/ Is(t, "Grouping", ">") /\ Count(tokens, "Grouping", "<") > Count(tokens, "Grouping", ">")
         \/ /\ ~Is(t, "Grouping", "<") /\ ~Is(t, "Grouping", ">")
            /\ ~(Count(tokens, "Grouping", "<") > Count(tokens, "Grouping", ">"))
  PROVE  Angles(i)'
<1> DEFINE a == Count(tokens, "Grouping", "<")
           b == Count(tokens, "Grouping", ">")
           a2 == Count(tokens', "Grouping", "<")
           b2 == Count(tokens', "Grouping", ">")
           da == Is(t, "Grouping", "<")
           db == Is(t, "Grouping", ">")
           wc == written[i].class = "close" /\ written[i].str = <<">">>
           before == \E k \in {n - 1, n} : k >= 1 /\ IsOpenTemplate(k)
           after == \E k \in {i - 1, i} : k >= 1 /\ IsOpenTemplate(k)
<1>1. a \in Nat /\ a2 = a + (IF da THEN 1 ELSE 0)
  BY CountReads
<1>2. b \in Nat /\ b2 = b + (IF db THEN 1 ELSE 0)
  BY CountReads
<1>3. ~TemplateMistaken => a = b \/ (a = b + 1 /\ before)
  BY DEF Angles
<1>4. Angles(i)' <=> (~TemplateMistaken' => a2 = b2 \/ (a2 = b2 + 1 /\ after'))
  BY DEF Angles
<1>5. after' <=> after
  <2>1. written' = written
    BY DEF Reads
  <2> QED
    BY <2>1 DEF IsOpenTemplate
<1>6. TemplateMistaken => TemplateMistaken'
  BY ReadsMore
<1>7. before => (IsOpenTemplate(n) /\ n >= 1 /\ written[i].class = "operand") \/ wc
  BY TemplateNext
<1>8. IsOpenTemplate(n) /\ n >= 1 => after
  OBVIOUS
<1>9. IsOpenTemplate(i) => after
  OBVIOUS
<1>10. da => ~db
  <2>1. <<"<">> # <<">">>
    <3> DEFINE p == <<"<">>
               q == <<">">>
    <3>1. p[1] = "<" /\ q[1] = ">"
      OBVIOUS
    <3> HIDE DEF p, q
    <3>2. p # q
      BY <3>1
    <3> QED
      BY <3>2 DEF p, q
  <2> QED
    BY <2>1 DEF Is
<1>11. IsOpenTemplate(i) => ~wc /\ written[i].class # "operand"
  BY DEF IsOpenTemplate
<1>12. ASSUME ~TemplateMistaken' PROVE a2 = b2 \/ (a2 = b2 + 1 /\ after)
  <2>1. a = b \/ (a = b + 1 /\ before)
    BY <1>3, <1>6, <1>12
  <2>2. CASE ~da /\ ~db /\ ~wc
    <3> HIDE DEF a, b, a2, b2, da, db, wc, before, after
    <3>1. a2 = a /\ b2 = b
      BY <1>1, <1>2, <2>2
    <3>2. before => after
      BY <1>7, <1>8, <2>2
    <3> QED
      BY <2>1, <3>1, <3>2
  <2>3. CASE da /\ IsOpenTemplate(i)
    <3> HIDE DEF a, b, a2, b2, da, db, wc, before, after
    <3>1. a2 = a + 1 /\ b2 = b
      BY <1>1, <1>2, <1>10, <2>3
    <3>2. ~before
      BY <1>7, <1>11, <2>3
    <3> QED
      BY <1>9, <2>1, <2>3, <3>1, <3>2
  <2>4. CASE db /\ a > b
    <3> HIDE DEF a, b, a2, b2, da, db, wc, before, after
    <3>1. a2 = a /\ b2 = b + 1
      BY <1>1, <1>2, <1>10, <2>4
    <3> QED
      BY <1>1, <1>2, <2>1, <2>4, <3>1
  <2>5. CASE ~da /\ ~db /\ ~(a > b)
    <3> HIDE DEF a, b, a2, b2, da, db, wc, before, after
    <3>1. a2 = a /\ b2 = b
      BY <1>1, <1>2, <2>5
    <3> QED
      BY <1>1, <1>2, <2>1, <2>5, <3>1
  <2> QED
    BY <1>12, <2>2, <2>3, <2>4, <2>5
<1> HIDE DEF a2, b2, after
<1> QED
  BY <1>4, <1>5, <1>12

\* A token that reads lexeme i brings the tokenizer behind it.
LEMMA StageNext ==
  ASSUME Types, NEW n \in Nat, NEW i, i = n + 1, i \in 1..Len(written), Stage(n), NEW t, Reads(t),
         t.at = written[i].at, End(t) <= End(written[i]),
         End(t) < End(written[i]) =>
           /\ written[i].class = "infix" /\ TemplateMistaken'
           /\ Past(written[i].str, End(t) - written[i].at) \in Residues,
         ~TemplateMistaken' \/ written[i].class = "operand" =>
           /\ t.str = written[i].str
           /\ written[i].class = "operand" => t.kind = written[i].kind,
         Brackets(i)', Angles(i)'
  PROVE  Stage(i)'
<1>1. /\ written' = written /\ pos' = End(t) /\ t \in LexedToken
      /\ UNCHANGED text
  BY DEF Reads
<1>2. written[i] \in Lexeme /\ written[i].at \in Nat /\ Len(written[i].str) \in Nat
      /\ End(written[i]) = written[i].at + Len(written[i].str) /\ End(written[i]) \in Nat
  <2>1. written[i] \in Lexeme
    BY TypeFacts
  <2>2. End(written[i]) = written[i].at + Len(written[i].str)
    BY DEF End
  <2>3. written[i].at \in Nat /\ Len(written[i].str) \in Nat
    BY <2>1, LexemeFacts
  <2> QED
    BY <2>1, <2>2, <2>3
<1>3. End(t) \in Nat /\ End(t) = t.at + Len(t.str) /\ 1 <= Len(t.str) /\ Len(t.str) \in Nat
  BY <1>1, TokenFacts
<1>4. written[i].at < End(t)
  <2> DEFINE l == Len(t.str)
             e == End(t)
             w == written[i]
  <2>1. e = w.at + l /\ l \in Nat /\ 1 <= l /\ w.at \in Nat
    BY <1>2, <1>3
  <2> HIDE DEF l, e, w
  <2>2. w.at < e
    BY <2>1
  <2> QED
    BY <2>2 DEF w, e
<1>5. End(written[i])' = End(written[i])
  BY <1>1 DEF End
<1>6. Covered(i)'
  <2>1. i > 0
    OBVIOUS
  <2>2. ~TemplateMistaken' => End(t) = End(written[i])
    <3> DEFINE e == End(t)
               f == End(written[i])
    <3>1. ~TemplateMistaken' => ~(e < f)
      OBVIOUS
    <3>2. e <= f /\ e \in Nat /\ f \in Nat
      BY <1>2, <1>3
    <3> HIDE DEF e, f
    <3>3. ~TemplateMistaken' => e = f
      BY <3>1, <3>2
    <3> QED
      BY <3>3 DEF e, f
  <2> QED
    BY <1>1, <1>4, <1>5, <2>1, <2>2 DEF Covered
<1>7. ASSUME NEW k \in 1..i, ~TemplateMistaken' \/ written[k].class = "operand" PROVE Own(k)'
  <2>1. CASE k \in 1..n
    <3>1. ~TemplateMistaken \/ written[k].class = "operand"
      BY <1>7, ReadsMore
    <3>2. Own(k)
      BY <2>1, <3>1 DEF Stage, Owned
    <3> QED
      BY <3>2, ReadsMore
  <2>2. CASE k = i
    <3>1. t.str = written[i].str /\ (written[i].class = "operand" => t.kind = written[i].kind)
      BY <1>7, <2>2
    <3> QED
      BY <2>2, <3>1, ReadsMore
  <2> QED
    BY <2>1, <2>2
<1>8. Owned(i)'
  BY <1>1, <1>7 DEF Owned
<1> QED
  BY <1>6, <1>8 DEF Stage

----------------------------------------------------------------------------
(* A round at an operand or an operator.                                   *)

\* A round that leaves the condition where it should be.
Rejects ==
  /\ phase' = "rejected" /\ UNCHANGED <<written, open, text, top, args, tokens, pos>>
  /\ RejectedOnly'

\* A round that brings the tokenizer behind lexeme n.
Advances(n) == \E t : Reads(t) /\ phase' = "tokenize" /\ Stage(n)'

\* The round that starts at lexeme i.
Round(n, i) ==
  /\ n \in Nat /\ i = n + 1 /\ i \in 1..Len(written) /\ Stage(n)
  /\ Token /\ BlanksEnd = written[i].at /\ pos <= written[i].at

\* A token that starts otherwise is not that bracket.
LEMMA NotIs ==
  ASSUME NEW t, NEW c, t.str[1] # c
  PROVE  \A kind : ~Is(t, kind, c)
<1> DEFINE p == <<c>>
<1>1. p[1] = c
  OBVIOUS
<1> HIDE DEF p
<1>2. t.str # p
  BY <1>1
<1> QED
  BY <1>2 DEF Is, p

\* What holds when a round starts.
LEMMA RoundFacts ==
  ASSUME Shape, NEW n, NEW i, Round(n, i)
  PROVE  /\ n \in Nat /\ i = n + 1 /\ i \in 1..Len(written) /\ Stage(n) /\ Token
         /\ BlanksEnd = written[i].at /\ pos <= written[i].at /\ BlanksEnd \in Nat
         /\ Types /\ Placed /\ Adjacent /\ Templates /\ Balance /\ Brackets(n) /\ Angles(n)
         /\ written[i] \in Lexeme /\ Proper(written[i]) /\ phase = "tokenize"
         /\ End(written[i]) = written[i].at + Len(written[i].str)
         /\ Len(written[i].str) \in Nat /\ 1 <= Len(written[i].str)
         /\ Past(text, written[i].at) \in Seq(Character) /\ Begins(Past(text, written[i].at), written[i].str)
         /\ Past(text, written[i].at)[1] = written[i].str[1]
<1>1. Types /\ Placed /\ Adjacent /\ Templates /\ Balance
  BY DEF Shape
<1>2. /\ n \in Nat /\ i = n + 1 /\ i \in 1..Len(written) /\ Stage(n) /\ Token
      /\ BlanksEnd = written[i].at /\ pos <= written[i].at
  BY DEF Round
<1>3. Brackets(n) /\ Angles(n)
  BY <1>2 DEF Stage
<1>4. /\ written[i] \in Lexeme /\ Proper(written[i]) /\ written[i].at \in Nat
      /\ End(written[i]) = written[i].at + Len(written[i].str)
      /\ Len(written[i].str) \in Nat /\ 1 <= Len(written[i].str)
  BY <1>1, <1>2, PlacedFacts
<1>5. Past(text, written[i].at) \in Seq(Character) /\ Follow(Past(text, written[i].at), written[i].str)
  BY <1>1, <1>2, FollowAt
<1>6. /\ Begins(Past(text, written[i].at), written[i].str)
      /\ Past(text, written[i].at)[1] = written[i].str[1]
  BY <1>4, <1>5, FollowStart
<1>7. phase = "tokenize"
  BY <1>2 DEF Token
<1> QED
  BY <1>1, <1>2, <1>3, <1>4, <1>5, <1>6, <1>7

\* The token is plain: no bracket.
LEMMA PlainBrackets ==
  ASSUME Shape, NEW n, NEW i, Round(n, i), NEW t, Reads(t),
         t.str[1] \notin {"(", ")"}, ~IsOpen(written[i]), ~IsClose(written[i])
  PROVE  Brackets(i)'
<1>1. Types /\ n \in Nat /\ i = n + 1 /\ i \in 1..Len(written) /\ Brackets(n)
  BY RoundFacts
<1> QED
  BY <1>1, BracketsNext

\* An operand is read whole, or the condition rejected for the reason RejectedOnly states.
LEMMA OperandRound ==
  ASSUME Shape, NEW n, NEW i, Round(n, i), written[i].class = "operand"
  PROVE  Rejects \/ Advances(i)
<1>1. /\ n \in Nat /\ i = n + 1 /\ i \in 1..Len(written) /\ Stage(n) /\ Token
      /\ BlanksEnd = written[i].at /\ pos <= written[i].at
      /\ Types /\ Placed /\ Adjacent /\ Templates
      /\ written[i] \in Lexeme /\ Proper(written[i]) /\ phase = "tokenize" /\ Angles(n)
  BY RoundFacts
<1>2. CASE /\ phase' = "rejected" /\ UNCHANGED <<written, open, text, top, args, tokens, pos>>
           /\ \/ written[i].kind = "FloatHexLiteral" /\ Fraction(written[i].str)
              \/ i = Len(written) /\ written[i].str \in StrlikePrefixes
  <2>1. Last(written) = written[Len(written)]
    BY <1>1, AdjacentFacts
  <2>3. \/ Len(tokens) = MaxNumTokens
        \/ Last(written).str \in StrlikePrefixes
        \/ \E k \in DOMAIN written : written[k].kind = "FloatHexLiteral" /\ Fraction(written[k].str)
    <3>1. DOMAIN written = 1..Len(written)
      BY <1>1, TypeFacts
    <3>2. CASE written[i].kind = "FloatHexLiteral" /\ Fraction(written[i].str)
      BY <1>1, <3>1, <3>2
    <3>3. CASE i = Len(written) /\ written[i].str \in StrlikePrefixes
      BY <2>1, <3>3
    <3> QED
      BY <1>2, <3>2, <3>3
  <2>4. RejectedOnly'
    <3>1. written' = written /\ tokens' = tokens
      BY <1>2
    <3> QED
      BY <2>3, <3>1 DEF RejectedOnly, EndsInPrefix, HasFraction
  <2> QED
    BY <1>2, <2>4 DEF Rejects
<1>3. ASSUME NEW t, Reads(t), t.kind = written[i].kind, t.str = written[i].str, t.at = written[i].at,
             End(t) = End(written[i]), phase' = "tokenize"
      PROVE  Stage(i)'
  <2>1. t.str[1] \notin {"=", ">", "<", "(", ")"}
    BY <1>1, <1>3, LexemeStart
  <2>2. ~IsOpen(written[i]) /\ ~IsClose(written[i])
    BY DEF IsOpen, IsClose
  <2>3. Brackets(i)'
    BY <1>3, <2>1, <2>2, PlainBrackets
  <2>4. ~Is(t, "Grouping", "<") /\ ~Is(t, "Grouping", ">")
    BY <2>1, NotIs
  <2>5. Angles(i)'
    BY <1>1, <1>3, <2>4, AnglesNext
  <2>6. End(written[i]) \in Nat /\ End(t) \in Nat
    BY <1>1, <1>3, PlacedFacts
  <2>7. End(t) <= End(written[i]) /\ ~(End(t) < End(written[i]))
    BY <1>3, <2>6
  <2> QED
    BY <1>1, <1>3, <2>3, <2>5, <2>7, StageNext
<1> QED
  BY <1>1, <1>2, <1>3, OperandReads DEF Advances

\* What is_grouping asks for each bracket.
LEMMA GroupingMeans ==
  ASSUME NEW s, NEW prevs
  PROVE  /\ s[1] = ")" => (MatchesGrouping(s, prevs) <=> ClosesGroup(prevs))
         /\ s[1] = ">" => (MatchesGrouping(s, prevs) <=>
                             Count(prevs, "Grouping", "<") > Count(prevs, "Grouping", ">"))
         /\ s[1] \in {"(", "<", ">"} => ~GroupingThrows(s, prevs)
<1>1. s[1] = ")" => (MatchesGrouping(s, prevs) <=> ClosesGroup(prevs))
  BY Zenon DEF MatchesGrouping
<1>2. s[1] = ">" => (MatchesGrouping(s, prevs) <=>
                             Count(prevs, "Grouping", "<") > Count(prevs, "Grouping", ">"))
  BY Zenon DEF MatchesGrouping
<1>3. s[1] \in {"(", "<", ">"} => ~GroupingThrows(s, prevs)
  BY Zenon DEF GroupingThrows
<1> QED
  BY <1>1, <1>2, <1>3

\* An operator token is no bracket of its own.
LEMMA NoGrouping ==
  ASSUME NEW t, t.kind \in {"BinaryOperator", "Operator"}
  PROVE  \A c : ~Is(t, "Grouping", c)
  BY DEF Is

\* A token as long as the lexeme reads it to its end.
LEMMA WholeReads ==
  ASSUME Shape, NEW n, NEW i, Round(n, i), NEW t, Reads(t), t.at = BlanksEnd,
         End(t) = BlanksEnd + Len(written[i].str)
  PROVE  t.at = written[i].at /\ End(t) <= End(written[i]) /\ ~(End(t) < End(written[i]))
<1> DEFINE e == End(t)
           f == End(written[i])
           l == Len(written[i].str)
           b == BlanksEnd
<1>1. b = written[i].at /\ b \in Nat /\ l \in Nat /\ f = written[i].at + l /\ e = b + l
  BY RoundFacts
<1> HIDE DEF e, f, l, b
<1>2. e <= f /\ ~(e < f)
  BY <1>1
<1> QED
  BY <1>1, <1>2 DEF e, f, b

\* A prefix operator is read.
LEMMA PrefixRound ==
  ASSUME Shape, NEW n, NEW i, Round(n, i), written[i].class = "prefix"
  PROVE  Advances(i)
<1> DEFINE s == Past(text, written[i].at)
           x == written[i].str
<1>1. /\ n \in Nat /\ i = n + 1 /\ i \in 1..Len(written) /\ Stage(n) /\ Token
      /\ BlanksEnd = written[i].at /\ pos <= written[i].at /\ BlanksEnd \in Nat
      /\ Types /\ Placed /\ Adjacent /\ Templates /\ Angles(n)
      /\ 1 <= Len(x) /\ Begins(s, x) /\ s[1] = x[1]
  BY RoundFacts
<1>2. /\ PunctToken(s, tokens, Len(x)) /\ ~MatchesGrouping(s, tokens)
      /\ s[1] \notin {"(", ")", "<", ">"}
  BY <1>1, PrefixStep
<1>3. ~GroupingThrows(s, tokens)
  BY <1>2 DEF GroupingThrows
<1>4. s = Past(text, BlanksEnd)
  BY <1>1
<1> HIDE DEF s
<1>5. PICK t : /\ Reads(t) /\ t.at = BlanksEnd /\ phase' = "tokenize"
               /\ t.kind \in {"BinaryOperator", "Operator"}
               /\ End(t) = BlanksEnd + Len(x) /\ t.str = x
  <2>1. /\ Types /\ Token /\ BlanksEnd \in Nat /\ pos <= BlanksEnd
        /\ Begins(s, x) /\ 1 <= Len(x) /\ PunctToken(s, tokens, Len(x))
    BY <1>1, <1>2
  <2>2. \E t : PunctRead(t, s, x)
    BY <1>3, <1>4, <2>1, PunctReads
  <2> QED
    BY <1>2, <2>2 DEF PunctRead
<1>6. t.at = written[i].at /\ End(t) <= End(written[i]) /\ ~(End(t) < End(written[i]))
  BY <1>5, WholeReads
<1>7. Brackets(i)'
  <2>1. t.str[1] \notin {"(", ")"} /\ ~IsOpen(written[i]) /\ ~IsClose(written[i])
    BY <1>1, <1>2, <1>5 DEF IsOpen, IsClose
  <2> QED
    BY <1>5, <2>1, PlainBrackets
<1>8. ~Is(t, "Grouping", "<") /\ ~Is(t, "Grouping", ">")
  BY <1>5, NoGrouping
<1>9. Angles(i)'
  BY <1>1, <1>5, <1>8, AnglesNext
<1>10. Stage(i)'
  BY <1>1, <1>5, <1>6, <1>7, <1>9, StageNext
<1> QED
  BY <1>5, <1>10 DEF Advances

\* A '<' or a '>' of an operator is taken for a bracket only after a mistake.
LEMMA InfixMistaken ==
  ASSUME Shape, NEW n, NEW i, Round(n, i), written[i].class = "infix", NEW t, Reads(t),
         t.at = BlanksEnd, t.kind = "Grouping", written[i].str[1] \in {"<", ">"},
         MatchesGrouping(Past(text, written[i].at), tokens)
  PROVE  TemplateMistaken'
<1> DEFINE a == Count(tokens, "Grouping", "<")
           b == Count(tokens, "Grouping", ">")
           s == Past(text, written[i].at)
<1>1. /\ n \in Nat /\ i = n + 1 /\ i \in 1..Len(written)
      /\ BlanksEnd = written[i].at
      /\ Types /\ Templates /\ Angles(n) /\ s[1] = written[i].str[1]
  BY RoundFacts
<1>2. CASE written[i].str[1] = "<"
  BY <1>1, <1>2, ReadsMore
<1>3. CASE written[i].str[1] = ">"
  <2>1. a > b
    BY <1>1, <1>3, GroupingMeans
  <2>2. a \in Nat /\ b \in Nat
    BY <1>1, CountReads
  <2>3. a # b
    <3> HIDE DEF a, b
    <3> QED
      BY <2>1, <2>2
  <2>4. ~TemplateMistaken => \E k \in {n - 1, n} : k >= 1 /\ IsOpenTemplate(k)
    BY <1>1, <2>3 DEF Angles
  <2>5. ~\E k \in {n - 1, n} : k >= 1 /\ IsOpenTemplate(k)
    <3> SUFFICES ASSUME NEW k, k = n - 1 \/ k = n, k >= 1, IsOpenTemplate(k) PROVE FALSE
      OBVIOUS
    <3>1. written[i].class \in {"operand", "close"}
      BY <1>1, TemplateNext
    <3> QED
      BY <3>1
  <2> QED
    BY <1>1, <2>4, <2>5, ReadsMore
<1> QED
  BY <1>2, <1>3

\* An operator is read, whole or, by a mistake, up to a residue.
LEMMA InfixRound ==
  ASSUME Shape, NEW n, NEW i, Round(n, i), written[i].class = "infix"
  PROVE  Advances(i)
<1> DEFINE s == Past(text, written[i].at)
           x == written[i].str
<1>1. /\ n \in Nat /\ i = n + 1 /\ i \in 1..Len(written) /\ Stage(n) /\ Token
      /\ BlanksEnd = written[i].at /\ pos <= written[i].at /\ BlanksEnd \in Nat
      /\ Types /\ Placed /\ Adjacent /\ Templates /\ Angles(n)
      /\ Len(x) \in Nat /\ 1 <= Len(x) /\ Begins(s, x) /\ s[1] = x[1]
      /\ End(written[i]) = written[i].at + Len(x)
  BY RoundFacts
<1>2. /\ PunctToken(s, tokens, Len(x)) /\ s[1] \notin {"(", ")"}
      /\ MatchesGrouping(s, tokens) =>
           /\ x[1] \in {"<", ">"}
           /\ Len(x) > 1 => Past(x, 1) \in Residues
  BY <1>1, InfixStep
<1>3. ~GroupingThrows(s, tokens)
  BY <1>2 DEF GroupingThrows
<1>4. s = Past(text, BlanksEnd)
  BY <1>1
<1>5. ~IsOpen(written[i]) /\ ~IsClose(written[i])
  BY DEF IsOpen, IsClose
<1>6. PICK t : /\ Reads(t) /\ t.at = BlanksEnd /\ phase' = "tokenize"
               /\ \/ /\ t.kind = "Grouping" /\ MatchesGrouping(s, tokens)
                     /\ End(t) = BlanksEnd + 1 /\ t.str = <<s[1]>>
                  \/ /\ t.kind \in {"BinaryOperator", "Operator"}
                     /\ End(t) = BlanksEnd + Len(x) /\ t.str = x
  <2> HIDE DEF s, x
  <2>1. /\ Types /\ Token /\ BlanksEnd \in Nat /\ pos <= BlanksEnd
        /\ Begins(s, x) /\ 1 <= Len(x) /\ PunctToken(s, tokens, Len(x))
    BY <1>1, <1>2
  <2>2. \E t : PunctRead(t, s, x)
    BY <1>3, <1>4, <2>1, PunctReads
  <2> QED
    BY <2>2 DEF PunctRead
<1>7. t.str[1] = s[1]
  <2> DEFINE p == <<s[1]>>
  <2>1. p[1] = s[1]
    OBVIOUS
  <2> HIDE DEF p
  <2> QED
    BY <1>1, <1>6, <2>1 DEF p
<1>8. Brackets(i)'
  BY <1>2, <1>5, <1>6, <1>7, PlainBrackets
<1>9. CASE t.kind \in {"BinaryOperator", "Operator"} /\ End(t) = BlanksEnd + Len(x) /\ t.str = x
  <2>1. t.at = written[i].at /\ End(t) <= End(written[i]) /\ ~(End(t) < End(written[i]))
    BY <1>6, <1>9, WholeReads
  <2>2. ~Is(t, "Grouping", "<") /\ ~Is(t, "Grouping", ">")
    BY <1>9, NoGrouping
  <2>3. Angles(i)'
    BY <1>1, <1>6, <2>2, AnglesNext
  <2>4. Stage(i)'
    BY <1>1, <1>6, <1>8, <1>9, <2>1, <2>3, StageNext
  <2> QED
    BY <1>6, <2>4 DEF Advances
<1>10. CASE t.kind = "Grouping" /\ MatchesGrouping(s, tokens) /\ End(t) = BlanksEnd + 1
  <2>1. TemplateMistaken'
    BY <1>2, <1>6, <1>10, InfixMistaken
  <2>2. Angles(i)'
    BY <1>1, <1>6, <2>1, AnglesNext
  <2>3. /\ End(t) <= End(written[i])
        /\ End(t) < End(written[i]) => Len(x) > 1
        /\ End(t) - written[i].at = 1
    <3> DEFINE e == End(t)
               f == End(written[i])
               l == Len(x)
               b == BlanksEnd
    <3>1. b = written[i].at /\ b \in Nat /\ l \in Nat /\ 1 <= l /\ f = written[i].at + l /\ e = b + 1
      BY <1>1, <1>10
    <3> HIDE DEF e, f, l, b
    <3>2. e <= f /\ (e < f => l > 1) /\ e - written[i].at = 1
      BY <3>1
    <3> QED
      BY <3>2 DEF e, f, l
  <2>4. End(t) < End(written[i]) =>
           /\ written[i].class = "infix" /\ TemplateMistaken'
           /\ Past(written[i].str, End(t) - written[i].at) \in Residues
    BY <1>2, <1>10, <2>1, <2>3
  <2>5. t.at = written[i].at
    BY <1>1, <1>6
  <2>6. Stage(i)'
    BY <1>1, <1>6, <1>8, <2>1, <2>2, <2>3, <2>4, <2>5, StageNext
  <2> QED
    BY <1>6, <2>6 DEF Advances
<1> QED
  BY <1>6, <1>9, <1>10

----------------------------------------------------------------------------
(* A round at a bracket.                                                   *)

\* A token of that spelling is found when there is one.
LEMMA FirstTokenFacts ==
  ASSUME NEW prevs \in Seq(LexedToken), NEW kind, NEW c
  PROVE  /\ Count(prevs, kind, c) \in Nat
         /\ FirstToken(prevs, kind, c) <= Len(prevs) <=> Count(prevs, kind, c) > 0
<1> DEFINE S == {k \in DOMAIN prevs : Is(prevs[k], kind, c)}
           l == Len(prevs)
           f == FirstToken(prevs, kind, c)
<1>1. l \in Nat /\ DOMAIN prevs = 1..l
  OBVIOUS
<1>2. f = Min(S \cup {l + 1})
  BY DEF FirstToken
<1>3. S \in SUBSET (1..l)
  BY <1>1
<1>4. Cardinality(S) \in Nat /\ (S # {} <=> Cardinality(S) > 0)
  <2> HIDE DEF S, l
  <2> QED
    BY <1>1, <1>3, SetBelow
<1>5. Count(prevs, kind, c) \in Nat /\ (S # {} <=> Count(prevs, kind, c) > 0)
  BY <1>4 DEF Count
<1>6. S \cup {l + 1} \in SUBSET Nat /\ l + 1 \in S \cup {l + 1}
  <2> HIDE DEF S, l
  <2> QED
    BY <1>1, <1>3
<1>7. f \in S \cup {l + 1} /\ \A x \in S \cup {l + 1} : f <= x
  <2> HIDE DEF S, l, f
  <2> QED
    BY <1>2, <1>6, MinOf
<1>8. f <= l <=> S # {}
  <2> HIDE DEF S, l, f
  <2>1. l + 1 \notin S /\ \A x \in S : x <= l /\ x \in Nat
    BY <1>1, <1>3
  <2>2. CASE S = {}
    <3>1. f = l + 1
      BY <1>7, <2>2
    <3> QED
      BY <1>1, <2>2, <3>1
  <2>3. CASE S # {}
    <3>1. PICK x \in S : TRUE
      BY <2>3
    <3>2. x <= l /\ f <= x /\ x \in Nat /\ f \in Nat
      BY <1>1, <1>6, <1>7, <2>1, <3>1
    <3> QED
      BY <1>1, <2>3, <3>2
  <2> QED
    BY <2>2, <2>3
<1> HIDE DEF S, f, l
<1>9. f <= l <=> Count(prevs, kind, c) > 0
  BY <1>5, <1>8
<1> QED
  BY <1>5, <1>9 DEF f, l

\* The token that a bracket becomes.
BracketRead(t, i, m, s) ==
  /\ Reads(t) /\ t.at = BlanksEnd /\ phase' = "tokenize"
  /\ t.str = written[i].str /\ t.str[1] = m
  /\ End(t) = BlanksEnd + Len(written[i].str)
  /\ \/ t.kind = "Grouping" /\ MatchesGrouping(s, tokens)
     \/ /\ t.kind \in {"BinaryOperator", "Operator"} /\ ~MatchesGrouping(s, tokens)
        /\ m \in {"(", ")"} => t.kind = "Operator"

\* A round at a bracket reads it.
LEMMA BracketReads ==
  ASSUME Shape, NEW n, NEW i, Round(n, i), NEW m \in {"(", ")", "<", ">"}, written[i].str = <<m>>,
         NEW s, s = Past(text, written[i].at), ~GroupingThrows(s, tokens)
  PROVE  \E t : BracketRead(t, i, m, s)
<1> DEFINE x == written[i].str
           l == Len(x)
           b == BlanksEnd
<1>1. /\ i \in 1..Len(written) /\ Token
      /\ BlanksEnd = written[i].at /\ pos <= BlanksEnd /\ BlanksEnd \in Nat
      /\ Types /\ Placed /\ l \in Nat /\ 1 <= l /\ Begins(s, x) /\ s[1] = x[1]
  BY RoundFacts
<1>2. PunctToken(s, tokens, 1) /\ s[1] = m
      /\ (m \in {"(", ")"} => NextKind(s, tokens) # "BinaryOperator")
  <2>1. Types /\ Placed /\ i \in 1..Len(written)
    BY <1>1
  <2> QED
    BY <2>1, BracketStep
<1>3. l <= 1
  <2> DEFINE p == <<m>>
  <2>1. Len(p) <= 1
    OBVIOUS
  <2>2. x = p
    OBVIOUS
  <2> HIDE DEF p, x
  <2> QED
    BY <2>1, <2>2
<1>4. l = 1
  <2> HIDE DEF l
  <2> QED
    BY <1>1, <1>3
<1>5. s = Past(text, BlanksEnd)
  BY <1>1
<1>6. x[1] = m
  BY <1>1, <1>2
<1> HIDE DEF x
<1>7. PunctToken(s, tokens, l)
  <2> HIDE DEF l
  <2> QED
    BY <1>2, <1>4
<1>0. /\ Types /\ Token /\ BlanksEnd \in Nat /\ pos <= BlanksEnd /\ Begins(s, x) /\ 1 <= Len(x)
      /\ PunctToken(s, tokens, Len(x))
  BY <1>1, <1>7 DEF l
<1>8. PICK t : /\ Reads(t) /\ t.at = BlanksEnd /\ phase' = "tokenize"
                /\ \/ /\ t.kind = "Grouping" /\ MatchesGrouping(s, tokens)
                      /\ End(t) = BlanksEnd + 1 /\ t.str = <<s[1]>>
                   \/ /\ t.kind = NextKind(s, tokens) /\ t.kind \in {"BinaryOperator", "Operator"}
                      /\ ~MatchesGrouping(s, tokens)
                      /\ End(t) = BlanksEnd + Len(x) /\ t.str = x
  <2> HIDE DEF l, b
  <2>1. ~GroupingThrows(s, tokens)
    OBVIOUS
  <2>2. \E t : PunctRead(t, s, x)
    BY <1>0, <1>5, <2>1, PunctReads
  <2> QED
    BY <2>2 DEF PunctRead
<1>9. <<s[1]>> = x
  BY <1>2 DEF x
<1>10. t.str = x /\ End(t) = b + l
  <2> HIDE DEF l, b
  <2>1. CASE End(t) = b + 1 /\ t.str = <<s[1]>>
    BY <1>4, <1>9, <2>1
  <2>2. CASE End(t) = b + l /\ t.str = x
    BY <2>2
  <2> QED
    BY <1>8, <2>1, <2>2 DEF b, l
<1>11. t.str[1] = m
  BY <1>6, <1>10
<1>12. \/ t.kind = "Grouping" /\ MatchesGrouping(s, tokens)
       \/ /\ t.kind \in {"BinaryOperator", "Operator"} /\ ~MatchesGrouping(s, tokens)
          /\ m \in {"(", ")"} => t.kind = "Operator"
  BY <1>2, <1>8
<1> QED
  BY <1>8, <1>10, <1>11, <1>12 DEF x, BracketRead

\* Texts of one character are equal only when it is.
LEMMA OneSpelling ==
  ASSUME NEW a, NEW b, <<a>> = <<b>>
  PROVE  a = b
<1> DEFINE p == <<a>>
           q == <<b>>
<1>1. p[1] = a /\ q[1] = b
  OBVIOUS
<1> HIDE DEF p, q
<1>2. p[1] = q[1]
  BY DEF p, q
<1> QED
  BY <1>1, <1>2

\* An opening bracket is read as a group or as a call.
LEMMA OpenParenRound ==
  ASSUME Shape, NEW n, NEW i, Round(n, i), written[i].class = "open", written[i].str = <<"(">>
  PROVE  Advances(i)
<1>0. PICK m \in {"(", ")", "<", ">"} : m = "(" /\ written[i].str = <<m>>
  OBVIOUS
<1> DEFINE s == Past(text, written[i].at)
<1>1. /\ n \in Nat /\ i = n + 1 /\ i \in 1..Len(written) /\ Stage(n)
      /\ BlanksEnd = written[i].at /\ Types /\ Templates /\ Brackets(n) /\ Angles(n)
      /\ s[1] = written[i].str[1]
  BY RoundFacts
<1>2. written[i].str[1] = "("
  OBVIOUS
<1>3. ~GroupingThrows(s, tokens)
  BY <1>1, <1>2, GroupingMeans
<1> HIDE DEF s
<1>4. PICK t : /\ Reads(t) /\ t.at = BlanksEnd /\ phase' = "tokenize"
               /\ t.str = written[i].str /\ t.str[1] = "("
               /\ End(t) = BlanksEnd + Len(written[i].str)
               /\ t.kind = "Grouping" \/ t.kind = "Operator"
  <2>1. \E t : BracketRead(t, i, m, s)
    <3>1. /\ Shape /\ Round(n, i) /\ s = Past(text, written[i].at) /\ ~GroupingThrows(s, tokens)
          /\ m \in {"(", ")", "<", ">"} /\ written[i].str = <<m>>
      BY <1>0, <1>3 DEF s
    <3> QED
      BY ONLY <3>1, BracketReads
  <2> QED
    BY <1>0, <2>1 DEF BracketRead
<1>5. t.at = written[i].at /\ End(t) <= End(written[i]) /\ ~(End(t) < End(written[i]))
  BY <1>4, WholeReads
<1>6. t.str = <<"(">> /\ t.kind \in {"Operator", "Grouping"} /\ IsOpen(written[i])
  BY <1>4 DEF IsOpen
<1>7. Brackets(i)'
  BY <1>1, <1>4, <1>6, BracketsNext
<1>8. ~Is(t, "Grouping", "<") /\ ~Is(t, "Grouping", ">")
  BY <1>4, NotIs
<1>9. Angles(i)'
  BY <1>1, <1>4, <1>8, AnglesNext
<1>10. Stage(i)'
  BY <1>1, <1>4, <1>5, <1>7, <1>9, StageNext
<1> QED
  BY <1>4, <1>10 DEF Advances

\* The start of template arguments is read.
LEMMA OpenTemplateRound ==
  ASSUME Shape, NEW n, NEW i, Round(n, i), written[i].class = "open", written[i].str = <<"<">>
  PROVE  Advances(i)
<1>0. PICK m \in {"(", ")", "<", ">"} : m = "<" /\ written[i].str = <<m>>
  OBVIOUS
<1> DEFINE s == Past(text, written[i].at)
<1>1. /\ n \in Nat /\ i = n + 1 /\ i \in 1..Len(written) /\ Stage(n)
      /\ BlanksEnd = written[i].at /\ Types /\ Templates /\ Brackets(n) /\ Angles(n)
      /\ s[1] = written[i].str[1]
  BY RoundFacts
<1>2. written[i].str[1] = "<"
  OBVIOUS
<1>3. ~GroupingThrows(s, tokens)
  BY <1>1, <1>2, GroupingMeans
<1> HIDE DEF s
<1>4. PICK t : /\ Reads(t) /\ t.at = BlanksEnd /\ phase' = "tokenize"
               /\ t.str = written[i].str /\ t.str[1] = "<"
               /\ End(t) = BlanksEnd + Len(written[i].str)
               /\ t.kind = "Grouping" \/ t.kind \in {"BinaryOperator", "Operator"}
  <2>1. \E t : BracketRead(t, i, m, s)
    <3>1. /\ Shape /\ Round(n, i) /\ s = Past(text, written[i].at) /\ ~GroupingThrows(s, tokens)
          /\ m \in {"(", ")", "<", ">"} /\ written[i].str = <<m>>
      BY <1>0, <1>3 DEF s
    <3> QED
      BY ONLY <3>1, BracketReads
  <2> QED
    BY <1>0, <2>1 DEF BracketRead
<1>5. t.at = written[i].at /\ End(t) <= End(written[i]) /\ ~(End(t) < End(written[i]))
  BY <1>4, WholeReads
<1>6. ~IsOpen(written[i]) /\ ~IsClose(written[i])
  <2>1. written[i].str # <<"(">>
    BY OneSpelling
  <2> QED
    BY <2>1 DEF IsOpen, IsClose
<1>7. Brackets(i)'
  <2>1. t.str[1] \notin {"(", ")"}
    BY <1>4
  <2> QED
    BY <1>4, <1>6, <2>1, PlainBrackets
<1>8. Angles(i)'
  <2>1. CASE t.kind = "Grouping"
    <3>1. Is(t, "Grouping", "<") /\ IsOpenTemplate(i)
      BY <1>4, <2>1 DEF Is, IsOpenTemplate
    <3> QED
      BY <1>1, <1>4, <3>1, AnglesNext
  <2>2. CASE t.kind \in {"BinaryOperator", "Operator"}
    <3>1. ~Is(t, "Grouping", "<") /\ ~Is(t, "Grouping", ">")
      BY <2>2, NoGrouping
    <3> QED
      BY <1>1, <1>4, <3>1, AnglesNext
  <2> QED
    BY <1>4, <2>1, <2>2
<1>9. Stage(i)'
  BY <1>1, <1>4, <1>5, <1>7, <1>8, StageNext
<1> QED
  BY <1>4, <1>9 DEF Advances

\* The end of template arguments is read.
LEMMA CloseTemplateRound ==
  ASSUME Shape, NEW n, NEW i, Round(n, i), written[i].class = "close", written[i].str = <<">">>
  PROVE  Advances(i)
<1>0. PICK m \in {"(", ")", "<", ">"} : m = ">" /\ written[i].str = <<m>>
  OBVIOUS
<1> DEFINE s == Past(text, written[i].at)
           a == Count(tokens, "Grouping", "<")
           b == Count(tokens, "Grouping", ">")
<1>1. /\ n \in Nat /\ i = n + 1 /\ i \in 1..Len(written) /\ Stage(n)
      /\ BlanksEnd = written[i].at /\ Types /\ Templates /\ Brackets(n) /\ Angles(n)
      /\ s[1] = written[i].str[1]
  BY RoundFacts
<1>2. written[i].str[1] = ">"
  OBVIOUS
<1>3. ~GroupingThrows(s, tokens) /\ (MatchesGrouping(s, tokens) <=> a > b)
  BY <1>1, <1>2, GroupingMeans
<1> HIDE DEF s, a, b
<1>4. PICK t : /\ Reads(t) /\ t.at = BlanksEnd /\ phase' = "tokenize"
               /\ t.str = written[i].str /\ t.str[1] = ">"
               /\ End(t) = BlanksEnd + Len(written[i].str)
               /\ \/ t.kind = "Grouping" /\ MatchesGrouping(s, tokens)
                  \/ t.kind \in {"BinaryOperator", "Operator"} /\ ~MatchesGrouping(s, tokens)
  <2>1. \E t : BracketRead(t, i, m, s)
    <3>1. /\ Shape /\ Round(n, i) /\ s = Past(text, written[i].at) /\ ~GroupingThrows(s, tokens)
          /\ m \in {"(", ")", "<", ">"} /\ written[i].str = <<m>>
      BY <1>0, <1>3 DEF s
    <3> QED
      BY ONLY <3>1, BracketReads
  <2> QED
    BY <1>0, <2>1 DEF BracketRead
<1>5. t.at = written[i].at /\ End(t) <= End(written[i]) /\ ~(End(t) < End(written[i]))
  BY <1>4, WholeReads
<1>6. ~IsOpen(written[i]) /\ ~IsClose(written[i])
  <2>1. written[i].str # <<")">>
    BY OneSpelling
  <2> QED
    BY <2>1 DEF IsOpen, IsClose
<1>7. Brackets(i)'
  <2>1. t.str[1] \notin {"(", ")"}
    BY <1>4
  <2> QED
    BY <1>4, <1>6, <2>1, PlainBrackets
<1>8. Angles(i)'
  <2>1. CASE t.kind = "Grouping" /\ MatchesGrouping(s, tokens)
    <3>1. Is(t, "Grouping", ">") /\ a > b
      BY <1>3, <1>4, <2>1 DEF Is
    <3> QED
      BY <1>1, <1>4, <3>1, AnglesNext DEF a, b
  <2>2. CASE t.kind \in {"BinaryOperator", "Operator"} /\ ~MatchesGrouping(s, tokens)
    <3>1. ~Is(t, "Grouping", "<") /\ ~Is(t, "Grouping", ">") /\ ~(a > b)
      BY <1>3, <2>2, NoGrouping
    <3> QED
      BY <1>1, <1>4, <3>1, AnglesNext DEF a, b
  <2> QED
    BY <1>4, <2>1, <2>2
<1>9. Stage(i)'
  BY <1>1, <1>4, <1>5, <1>7, <1>8, StageNext
<1> QED
  BY <1>4, <1>9 DEF Advances

\* A ')' finds its bracket open, as a group or as a call.
LEMMA CloseParenMeans ==
  ASSUME Shape, NEW n, NEW i, Round(n, i), IsClose(written[i])
  PROVE  /\ ~(Count(tokens, "Operator", ")") > Count(tokens, "Operator", "("))
         /\ ClosesGroup(tokens) => Count(tokens, "Grouping", "(") > 0
         /\ ~ClosesGroup(tokens) => Count(tokens, "Operator", ")") < Count(tokens, "Operator", "(")
<1> DEFINE a == Count(tokens, "Operator", "(")
           b == Count(tokens, "Operator", ")")
           g == Count(tokens, "Grouping", "(")
           h == Count(tokens, "Grouping", ")")
           o == Cardinality(Opened(n))
           c == Cardinality(Closed(n))
           first == FirstToken(tokens, "Grouping", "(") <= Len(tokens)
<1>1. /\ n \in Nat /\ i = n + 1 /\ i \in 1..Len(written) /\ Types /\ Balance /\ Brackets(n)
  BY RoundFacts
<1>2. a + g = o /\ b + h = c /\ b <= a /\ (h > 0 => g > 0)
  BY <1>1 DEF Brackets
<1>3. tokens \in Seq(LexedToken)
  BY <1>1, TypeFacts
<1>5. a \in Nat /\ b \in Nat /\ g \in Nat /\ h \in Nat
  BY <1>3, FirstTokenFacts
<1>6. o \in Nat /\ c \in Nat
  BY <1>1, OpenedFacts
<1>7. c < o
  <2>1. i - 1 = n
    BY <1>1
  <2>2. Cardinality(Closed(i - 1)) < Cardinality(Opened(i - 1))
    BY <1>1 DEF Balance, IsClose
  <2> QED
    BY <2>1, <2>2
<1>8. first <=> g > 0
  BY <1>3, FirstTokenFacts
<1>9. ClosesGroup(tokens) => first
  BY DEF ClosesGroup
<1>10. first /\ a = b => ClosesGroup(tokens)
  BY DEF ClosesGroup
<1> HIDE DEF a, b, g, h, o, c, first
<1>11. ~(b > a)
  BY <1>2, <1>5
<1>12. ClosesGroup(tokens) => g > 0
  BY <1>8, <1>9
<1>13. ASSUME ~ClosesGroup(tokens) PROVE b < a
  <2>1. CASE first
    <3>1. a # b
      BY <1>10, <1>13, <2>1
    <3> QED
      BY <1>2, <1>5, <3>1
  <2>2. CASE ~first
    <3>1. ~(g > 0) /\ ~(h > 0)
      BY <1>2, <1>8, <2>2
    <3>2. g = 0 /\ h = 0
      BY <1>5, <3>1
    <3> QED
      BY <1>2, <1>5, <1>6, <1>7, <3>2
  <2> QED
    BY <2>1, <2>2
<1> QED
  BY <1>11, <1>12, <1>13 DEF a, b, g

\* A closing bracket is read, and never more of a kind than were opened.
LEMMA CloseParenRound ==
  ASSUME Shape, NEW n, NEW i, Round(n, i), written[i].class = "close", written[i].str = <<")">>
  PROVE  Advances(i)
<1>0. PICK m \in {"(", ")", "<", ">"} : m = ")" /\ written[i].str = <<m>>
  OBVIOUS
<1> DEFINE s == Past(text, written[i].at)
<1>1. /\ n \in Nat /\ i = n + 1 /\ i \in 1..Len(written) /\ Stage(n)
      /\ BlanksEnd = written[i].at /\ Types /\ Templates /\ Brackets(n) /\ Angles(n)
      /\ s[1] = written[i].str[1]
  BY RoundFacts
<1>2. written[i].str[1] = ")" /\ IsClose(written[i])
  BY DEF IsClose
<1>3. /\ ~(Count(tokens, "Operator", ")") > Count(tokens, "Operator", "("))
      /\ ClosesGroup(tokens) => Count(tokens, "Grouping", "(") > 0
      /\ ~ClosesGroup(tokens) => Count(tokens, "Operator", ")") < Count(tokens, "Operator", "(")
  BY <1>2, CloseParenMeans
<1>4. ~GroupingThrows(s, tokens) /\ (MatchesGrouping(s, tokens) <=> ClosesGroup(tokens))
  <2>1. ~GroupingThrows(s, tokens)
    BY <1>3, Zenon DEF GroupingThrows
  <2> QED
    BY <1>1, <1>2, <2>1, GroupingMeans
<1> HIDE DEF s
<1>5. PICK t : /\ Reads(t) /\ t.at = BlanksEnd /\ phase' = "tokenize"
               /\ t.str = written[i].str /\ t.str[1] = ")"
               /\ End(t) = BlanksEnd + Len(written[i].str)
               /\ \/ t.kind = "Grouping" /\ MatchesGrouping(s, tokens)
                  \/ t.kind = "Operator" /\ ~MatchesGrouping(s, tokens)
  <2>1. \E t : BracketRead(t, i, m, s)
    <3>1. /\ Shape /\ Round(n, i) /\ s = Past(text, written[i].at) /\ ~GroupingThrows(s, tokens)
          /\ m \in {"(", ")", "<", ">"} /\ written[i].str = <<m>>
      BY <1>0, <1>4 DEF s
    <3> QED
      BY ONLY <3>1, BracketReads
  <2> QED
    BY <1>0, <2>1 DEF BracketRead
<1>6. t.at = written[i].at /\ End(t) <= End(written[i]) /\ ~(End(t) < End(written[i]))
  BY <1>5, WholeReads
<1>7. t.str = <<")">> /\ IsClose(written[i])
      /\ \/ t.kind = "Grouping" /\ Count(tokens, "Grouping", "(") > 0
         \/ t.kind = "Operator" /\ Count(tokens, "Operator", ")") < Count(tokens, "Operator", "(")
  BY <1>2, <1>3, <1>4, <1>5
<1>8. Brackets(i)'
  BY <1>1, <1>5, <1>7, BracketsNext
<1>9. ~Is(t, "Grouping", "<") /\ ~Is(t, "Grouping", ">")
  BY <1>5, NotIs
<1>10. ~(written[i].class = "close" /\ written[i].str = <<">">>)
  BY OneSpelling
<1>11. Angles(i)'
  BY <1>1, <1>5, <1>9, <1>10, AnglesNext
<1>12. Stage(i)'
  BY <1>1, <1>5, <1>6, <1>8, <1>11, StageNext
<1> QED
  BY <1>5, <1>12 DEF Advances

----------------------------------------------------------------------------
(* A round inside an operator.                                             *)

\* What is left of an operator whose first characters were taken for brackets.
LEMMA ResidueText ==
  ASSUME Shape, NEW n \in 1..Len(written), Covered(n), pos < End(written[n]),
         NEW r, r = Past(written[n].str, pos - written[n].at), NEW s, s = Past(text, pos)
  PROVE  /\ r \in Residues /\ written[n].class = "infix" /\ TemplateMistaken
         /\ Begins(s, r) /\ ~HasAt(s, Len(r), {"=", ">"}) /\ BlanksEnd = pos
         /\ written[n].at < pos /\ pos + Len(r) = End(written[n])
         /\ \A e \in Nat : e <= Len(r) => Past(written[n].str, pos + e - written[n].at) = Past(r, e)
<1> DEFINE w == written[n]
           x == w.str
           l == Len(x)
           d == pos - w.at
           F == Past(text, w.at)
           lr == Len(r)
           T == Len(text)
<1>1. Types /\ Placed /\ Adjacent
  BY DEF Shape
<1>2. /\ w \in Lexeme /\ Proper(w) /\ x \in Seq(Character) /\ w.at \in Nat /\ l \in Nat /\ 1 <= l
      /\ End(w) = w.at + l /\ End(w) <= T /\ T \in Nat /\ text \in Seq(Character)
      /\ pos \in Nat
  BY <1>1, PlacedFacts DEF Types
<1>3. w.at < pos /\ w.class = "infix" /\ r \in Residues /\ pos < End(w)
  <2>1. n > 0
    BY <1>1, PlacedFacts
  <2> QED
    BY <2>1 DEF Covered
<1>4. TemplateMistaken
  <2>1. n > 0
    BY <1>1, PlacedFacts
  <2>2. ~TemplateMistaken => pos = End(w)
    BY <2>1 DEF Covered
  <2>3. pos # End(w)
    <3> DEFINE e == End(w)
    <3>1. pos < e /\ pos \in Nat /\ e \in Nat
      BY <1>2, <1>3
    <3> HIDE DEF e
    <3>2. pos # e
      BY <3>1
    <3> QED
      BY <3>2 DEF e
  <2> QED
    BY <2>2, <2>3
<1>5. /\ d \in 0..l /\ d \in Nat /\ d <= l /\ pos = w.at + d /\ pos \in 0..T
      /\ l = End(w) - w.at
  <2> DEFINE f == End(w)
             a == w.at
  <2>1. a \in Nat /\ l \in Nat /\ f = a + l /\ f <= T /\ T \in Nat /\ pos \in Nat /\ a < pos /\ pos < f
        /\ d = pos - a
    BY <1>2, <1>3
  <2> HIDE DEF l, f, a, d, T
  <2>2. d \in 0..l /\ d \in Nat /\ d <= l /\ pos = a + d /\ pos \in 0..T /\ l = f - a
    BY <2>1
  <2> QED
    BY <2>2 DEF f, a
<1>6. /\ r \in Seq(Character) /\ lr = l - d
      /\ \A k \in 1..l - d : r[k] = x[d + k]
  BY <1>2, <1>5, PastProps
<1>7. pos + lr = End(w)
  <2> DEFINE f == End(w)
             a == w.at
  <2>1. lr = l - d
    BY <1>6
  <2>3. pos = a + d /\ l = f - a /\ d \in Nat
    BY <1>5
  <2>4. a \in Nat /\ f = a + l /\ l \in Nat
    BY <1>2
  <2> HIDE DEF lr, l, d, f, a
  <2>2. pos + lr = f
    BY <2>1, <2>3, <2>4
  <2> QED
    BY <2>2 DEF f
<1>8. /\ F \in Seq(Character) /\ Len(F) \in Nat /\ Follow(F, x) /\ Len(F) = T - w.at
      /\ \A C : HasAt(F, l, C) =>
            \/ Space \in C
            \/ /\ n < Len(written) /\ written[n + 1].at = End(written[n])
               /\ written[n + 1].str[1] \in C
  BY <1>1, FollowAt
<1>9. d \in 0..Len(F) /\ l <= Len(F) /\ \A k \in 1..l : F[k] = x[k]
  <2>1. l <= Len(F) /\ \A k \in 1..l : F[k] = x[k]
    BY <1>8 DEF Follow, Begins
  <2> DEFINE lF == Len(F)
  <2>2. lF \in Nat /\ l \in Nat /\ d \in 0..l /\ l <= lF
    BY <1>2, <1>5, <1>8, <2>1
  <2> HIDE DEF lF, l, d
  <2>3. d \in 0..lF
    BY <2>2
  <2> QED
    BY <2>1, <2>3 DEF lF
<1>10. Past(F, d) = s
  <2>1. w.at \in Nat /\ d \in Nat /\ w.at + d <= T
    BY <1>2, <1>5
  <2>2. Past(Past(text, w.at), d) = Past(text, w.at + d)
    BY <1>2, <2>1, PastPast
  <2> QED
    BY <1>5, <2>2
<1>11. /\ s \in Seq(Character) /\ Len(s) = Len(F) - d
       /\ \A k \in 1..Len(F) - d : s[k] = F[d + k]
       /\ \A m \in Nat : \A C : HasAt(s, m, C) <=> HasAt(F, d + m, C)
  <2> HIDE DEF F, d
  <2>1. /\ Past(F, d) \in Seq(Character) /\ Len(Past(F, d)) = Len(F) - d
        /\ \A k \in 1..Len(F) - d : Past(F, d)[k] = F[d + k]
        /\ \A m \in Nat : \A C : HasAt(Past(F, d), m, C) <=> HasAt(F, d + m, C)
    BY <1>8, <1>9, PastProps
  <2> QED
    BY <1>10, <2>1, Zenon
<1>12. Begins(s, r)
  <2> DEFINE lF == Len(F)
             ls == Len(s)
  <2>1. /\ lF \in Nat /\ l \in Nat /\ d \in Nat /\ d <= l /\ l <= lF /\ ls = lF - d /\ lr = l - d
        /\ \A k \in 1..lF - d : s[k] = F[d + k]
        /\ \A k \in 1..l : F[k] = x[k]
        /\ \A k \in 1..l - d : r[k] = x[d + k]
    BY <1>2, <1>5, <1>6, <1>8, <1>9, <1>11
  <2> HIDE DEF lF, ls, l, d, lr, F, x
  <2>2. lr <= ls
    BY <2>1
  <2>3. ASSUME NEW k \in 1..lr PROVE s[k] = r[k]
    <3>1. k \in 1..lF - d /\ d + k \in 1..l /\ k \in 1..l - d
      BY <2>1
    <3> QED
      BY <2>1, <3>1
  <2> QED
    BY <1>6, <1>11, <2>2, <2>3 DEF Begins, lr, ls
<1>13. ~HasAt(s, lr, {"=", ">"})
  <2>1. HasAt(s, lr, {"=", ">"}) => HasAt(F, l, {"=", ">"})
    <3>1. lr \in Nat /\ d + lr = l
      <4>1. l \in Nat /\ d \in Nat /\ d <= l /\ lr = l - d
        BY <1>2, <1>5, <1>6
      <4> HIDE DEF l, d, lr
      <4> QED
        BY <4>1
    <3> HIDE DEF lr, l, d, F
    <3> QED
      BY <1>11, <3>1
  <2>2. Space \notin {"=", ">"}
    BY DEF Space
  <2>3. ASSUME n < Len(written) PROVE written[n + 1].str[1] \notin {"=", ">"}
    <3>1. n \in 1..Len(written) - 1 /\ n + 1 \in 1..Len(written)
      BY <1>1, <2>3, PlacedFacts
    <3> DEFINE v == written[n + 1]
    <3>2. v \in Lexeme /\ Proper(v)
      BY <1>1, <3>1, PlacedFacts
    <3>3. v.class \in {"operand", "prefix"} \/ (v.class = "open" /\ v.str = <<"(">>)
      BY <1>1, <1>3, <3>1, AdjacentFacts DEF Neighbours
    <3>4. v.class \in {"operand", "prefix"} => v.str[1] \notin {"=", ">"}
      BY <3>2, LexemeStart
    <3>5. v.str = <<"(">> => v.str[1] \notin {"=", ">"}
      OBVIOUS
    <3> QED
      BY <3>3, <3>4, <3>5
  <2> QED
    BY <1>8, <2>1, <2>2, <2>3
<1>14. BlanksEnd = pos
  <2>1. r[1] \in {"=", ">"} /\ 1 <= lr /\ lr \in Nat
    BY <1>3, ResidueFacts
  <2>2. s[1] = r[1]
    <3>1. 1 \in 1..lr
      BY <2>1
    <3> QED
      BY <1>12, <3>1 DEF Begins
  <2>3. "=" \notin Blank /\ ">" \notin Blank
    <3>1. "=" \in Starting /\ ">" \in Starting
      BY MarkFacts DEF Starting, Marks
    <3> QED
      BY <3>1, StartNotBlank
  <2>4. ~HasAt(s, 0, Blank)
    BY <2>1, <2>2, <2>3 DEF HasAt
  <2>5. 0 \in 0..Len(s)
    BY <1>11
  <2>6. Span(s, Blank) = 0
    <3>1. \A k \in 1..0 : s[k] \in Blank
      OBVIOUS
    <3> QED
      BY <1>11, <2>4, <2>5, <3>1, SpanIs
  <2> QED
    BY <1>2, <2>6 DEF BlanksEnd
<1>15. ASSUME NEW e \in Nat, e <= lr
       PROVE  Past(x, pos + e - w.at) = Past(r, e)
  <2> DEFINE a == w.at
             q == pos
  <2>1. d + e <= l /\ pos + e - w.at = d + e
    <3>1. l \in Nat /\ d \in Nat /\ lr = l - d /\ q = a + d /\ a \in Nat /\ e <= lr
      BY <1>2, <1>5, <1>6, <1>15
    <3> HIDE DEF l, lr, a, q, d
    <3>2. d + e <= l /\ q + e - a = d + e
      BY <3>1
    <3> QED
      BY <3>2 DEF a, q
  <2>2. Past(Past(x, d), e) = Past(x, d + e)
    BY <1>2, <1>5, <2>1, PastPast
  <2> QED
    BY <2>1, <2>2
<1> QED
  BY <1>3, <1>4, <1>7, <1>12, <1>13, <1>14, <1>15

\* A residue is read on with.
LEMMA ResidueRound ==
  ASSUME Shape, NEW n \in 1..Len(written), Stage(n), pos < End(written[n]), Token
  PROVE  Advances(n)
<1> DEFINE w == written[n]
           r == Past(w.str, pos - w.at)
           s == Past(text, pos)
           lr == Len(r)
<1>0. Types /\ Covered(n) /\ Owned(n) /\ Brackets(n)
  BY DEF Shape, Stage
<1>1. /\ r \in Residues /\ w.class = "infix" /\ TemplateMistaken
      /\ Begins(s, r) /\ ~HasAt(s, lr, {"=", ">"}) /\ BlanksEnd = pos
      /\ w.at < pos /\ pos + lr = End(w)
      /\ \A e \in Nat : e <= lr => Past(w.str, pos + e - w.at) = Past(r, e)
  BY <1>0, ResidueText
<1>2. /\ pos \in Nat /\ lr \in Nat /\ 1 <= lr /\ End(w) \in Nat /\ n \in Nat /\ w.at \in Nat
  <2>1. lr \in Nat /\ 1 <= lr
    BY <1>1, ResidueFacts
  <2>2. w.at \in Nat /\ End(w) \in Nat
    BY PlacedFacts DEF Shape
  <2> QED
    BY <1>0, <2>1, <2>2 DEF Types
<1> HIDE DEF r, s, lr
<1>3. PICK m \in 1..lr : /\ PunctToken(s, tokens, m)
                         /\ m < lr => Past(r, m) \in Residues
  BY <1>1, ResidueToken DEF lr
<1>4. s[1] \in {"=", ">"} /\ (lr > 1 => Past(r, 1) \in Residues)
  BY <1>1, ResidueToken DEF lr
<1>5. ~GroupingThrows(s, tokens)
  <2>1. s[1] # ")"
    BY <1>4
  <2> QED
    BY <2>1 DEF GroupingThrows
<1> DEFINE y == SubSeq(s, 1, m)
           ly == Len(y)
<1>6. s \in Seq(Character) /\ lr <= Len(s) /\ Len(s) \in Nat
  BY <1>1 DEF Begins, lr
<1>7. m \in Nat /\ 1 <= m /\ m <= Len(s) /\ m <= lr
  BY <1>2, <1>3, <1>6
<1>8. /\ y \in Seq(Character) /\ ly = m /\ y # <<>>
      /\ \A k \in 1..m : y[k] = s[k]
  BY <1>6, <1>7, Taken
<1> HIDE DEF y
<1>9. Begins(s, y) /\ 1 <= ly /\ PunctToken(s, tokens, ly)
  <2>1. ly <= Len(s) /\ 1 <= ly /\ \A k \in 1..ly : s[k] = y[k]
    <3> HIDE DEF ly
    <3> QED
      BY <1>7, <1>8
  <2>2. PunctToken(s, tokens, ly)
    <3> HIDE DEF ly
    <3> QED
      BY <1>3, <1>8
  <2> QED
    BY <1>6, <1>8, <2>1, <2>2 DEF Begins
<1>10. s = Past(text, BlanksEnd) /\ BlanksEnd \in Nat /\ pos <= BlanksEnd
  <2>1. s = Past(text, BlanksEnd)
    BY <1>1 DEF s
  <2> QED
    BY <1>1, <1>2, <2>1
<1>11. \E t : PunctRead(t, s, y)
  <2>1. Types /\ Token /\ Begins(s, y) /\ 1 <= Len(y) /\ PunctToken(s, tokens, Len(y)) /\ ~GroupingThrows(s, tokens)
    BY <1>0, <1>5, <1>9
  <2> QED
    BY <1>10, <2>1, PunctReads
<1>12. PICK t, e : /\ Reads(t) /\ phase' = "tokenize" /\ e \in {1, m} /\ End(t) = pos + e
                   /\ t.str = <<s[1]>> \/ t.str = y
  <2>1. PICK t : /\ Reads(t) /\ phase' = "tokenize"
                 /\ \/ End(t) = BlanksEnd + 1 /\ t.str = <<s[1]>>
                    \/ End(t) = BlanksEnd + ly /\ t.str = y
    BY <1>11 DEF PunctRead
  <2>2. \/ End(t) = pos + 1 /\ t.str = <<s[1]>>
        \/ End(t) = pos + m /\ t.str = y
    <3> HIDE DEF ly
    <3> QED
      BY <1>1, <1>8, <2>1
  <2> QED
    BY <2>1, <2>2
<1>13. t.str[1] = s[1]
  <2>1. CASE t.str = <<s[1]>>
    BY <2>1
  <2>2. CASE t.str = y
    <3>1. 1 \in 1..m
      BY <1>7
    <3> QED
      BY <1>8, <2>2, <3>1
  <2> QED
    BY <1>12, <2>1, <2>2
<1>14. e \in Nat /\ 1 <= e /\ e <= lr /\ (e < lr => Past(r, e) \in Residues)
  <2>1. CASE e = 1
    BY <1>2, <1>4, <2>1
  <2>2. CASE e = m
    BY <1>3, <1>7, <2>2
  <2> QED
    BY <1>12, <2>1, <2>2
<1>15. /\ written' = written /\ pos' = End(t) /\ TemplateMistaken'
  <2>1. TemplateMistaken'
    BY <1>0, <1>1, <1>12, ReadsMore
  <2> QED
    BY <1>12, <2>1 DEF Reads
<1>16. End(w)' = End(w)
  BY <1>15 DEF End
<1>17. /\ w.at < pos' /\ pos' <= End(w)
       /\ pos' < End(w) => Past(w.str, pos' - w.at) \in Residues
  <2> DEFINE q == End(t)
             f == End(w)
             a == w.at
             pq == Past(w.str, q - a)
             pe == Past(r, e)
  <2>1. q = pos + e /\ a < pos /\ pos + lr = f /\ pos \in Nat /\ a \in Nat /\ f \in Nat
    BY <1>1, <1>2, <1>12
  <2>2. pq = pe
    <3>1. Past(w.str, pos + e - w.at) = Past(r, e)
      BY <1>1, <1>14
    <3>2. End(t) - w.at = pos + e - w.at
      <4> HIDE DEF a
      <4>1. q - a = pos + e - a
        <5> HIDE DEF q
        <5> QED
          BY <1>14, <2>1
      <4> QED
        BY <4>1 DEF a
    <3> DEFINE d == End(t) - w.at
               c == pos + e - w.at
    <3>3. d = c /\ Past(w.str, c) = pe
      BY <3>1, <3>2
    <3> HIDE DEF d, c, pe
    <3>4. Past(w.str, d) = pe
      BY <3>3
    <3> QED
      BY <3>4 DEF d, pe
  <2>3. e < lr => pe \in Residues
    BY <1>14
  <2> HIDE DEF q, f, a, pq, pe
  <2>4. a < q /\ q <= f /\ (q < f => e < lr)
    BY <1>2, <1>14, <2>1
  <2>5. a < q /\ q <= f /\ (q < f => pq \in Residues)
    BY <2>2, <2>3, <2>4
  <2> QED
    BY <1>15, <2>5 DEF a, q, f, pq
<1>18. Covered(n)'
  <2>1. n > 0
    OBVIOUS
  <2> QED
    BY <1>1, <1>15, <1>16, <1>17, <2>1 DEF Covered
<1>19. Owned(n)'
  <2> SUFFICES ASSUME NEW k \in 1..n, written[k].class = "operand" PROVE Own(k)'
    BY <1>15 DEF Owned
  <2>1. Own(k)
    BY <1>0 DEF Owned
  <2> QED
    BY <1>0, <1>12, <2>1, ReadsMore
<1>20. Brackets(n)'
  <2>1. t.str[1] \notin {"(", ")"}
    BY <1>4, <1>13
  <2> QED
    BY <1>0, <1>2, <1>12, <2>1, BracketsSame
<1>21. Angles(n)'
  BY <1>15 DEF Angles
<1>22. Stage(n)'
  BY <1>18, <1>19, <1>20, <1>21 DEF Stage
<1> QED
  BY <1>12, <1>22 DEF Advances

----------------------------------------------------------------------------
(* Every step preserves the invariant.                                     *)

\* Every round reads on as it should, or rejects the condition for a reason.
LEMMA TokenAdvances ==
  ASSUME Shape, NEW n \in 0..Len(written), Stage(n), Token
  PROVE  Rejects \/ \E m \in 0..Len(written) : Advances(m)
<1>1. Types /\ Placed /\ Adjacent /\ Covered(n) /\ phase = "tokenize" /\ BlanksEnd < Len(text)
  BY DEF Shape, Stage, Token
<1>2. Len(written) \in Nat /\ Len(text) \in Nat /\ pos \in Nat
  BY <1>1, TypeFacts
<1>3. Len(written) >= 1
  BY <1>1, AdjacentFacts
<1>4. CASE n > 0 /\ pos < End(written[n])
  <2>1. n \in 1..Len(written)
    BY <1>2, <1>4
  <2> QED
    BY <1>4, <2>1, ResidueRound
<1>5. CASE ~(n > 0 /\ pos < End(written[n]))
  <2>1. pos = IF n = 0 THEN 0 ELSE End(written[n])
    <3>1. CASE n = 0
      BY <1>1, <3>1 DEF Covered
    <3>2. CASE n > 0
      <4>1. End(written[n]) \in Nat /\ pos <= End(written[n])
        BY <1>1, <1>2, <3>2, PlacedFacts DEF Covered
      <4> DEFINE e == End(written[n])
      <4>2. e \in Nat /\ pos <= e /\ ~(pos < e)
        BY <1>5, <3>2, <4>1
      <4> HIDE DEF e
      <4>3. pos = e
        BY <1>2, <4>2
      <4> QED
        BY <3>2, <4>3 DEF e
    <3> QED
      BY <3>1, <3>2
  <2>2. /\ n < Len(written) => BlanksEnd = written[n + 1].at /\ pos <= written[n + 1].at
        /\ n = Len(written) /\ n > 0 => BlanksEnd = Len(text)
    BY <1>1, <2>1, Gap
  <2>3. n # Len(written)
    <3> DEFINE T == Len(text)
               N == Len(written)
               b == BlanksEnd
    <3>1. (n = N /\ n > 0 => b = T) /\ b < T /\ T \in Nat /\ N >= 1 /\ N \in Nat
      BY <1>1, <1>2, <1>3, <2>2
    <3> HIDE DEF T, N, b
    <3>2. n # N
      BY <3>1
    <3> QED
      BY <3>2 DEF N
  <2> DEFINE i == n + 1
             N == Len(written)
  <2>4. N \in Nat /\ n \in 0..N /\ n # N
    BY <1>2, <2>3
  <2> HIDE DEF N
  <2>5. i \in 1..N /\ n < N /\ n \in Nat /\ i \in 0..N
    BY <2>4
  <2>6. Round(n, i)
    BY <2>2, <2>5 DEF Round, N
  <2> HIDE DEF i
  <2>7. written[i] \in Lexeme /\ Proper(written[i])
    BY <2>6, RoundFacts
  <2>8. CASE written[i].class = "operand"
    BY <2>5, <2>6, <2>8, OperandRound DEF N
  <2>9. CASE written[i].class = "prefix"
    BY <2>5, <2>6, <2>9, PrefixRound DEF N
  <2>10. CASE written[i].class = "infix"
    BY <2>5, <2>6, <2>10, InfixRound DEF N
  <2>11. CASE written[i].class = "open"
    <3>1. written[i].str = <<"(">> \/ written[i].str = <<"<">>
      BY <2>7, <2>11 DEF Proper
    <3>2. Advances(i)
      BY <2>6, <2>11, <3>1, OpenParenRound, OpenTemplateRound
    <3> QED
      BY <2>5, <3>2 DEF N
  <2>12. CASE written[i].class = "close"
    <3>1. written[i].str = <<")">> \/ written[i].str = <<">">>
      BY <2>7, <2>12 DEF Proper
    <3>2. Advances(i)
      BY <2>6, <2>12, <3>1, CloseParenRound, CloseTemplateRound
    <3> QED
      BY <2>5, <3>2 DEF N
  <2> QED
    BY <2>7, <2>8, <2>9, <2>10, <2>11, <2>12, LexemeFacts
<1> QED
  BY <1>4, <1>5

\* The condition stays while only the phase goes on.
LEMMA PhaseShape ==
  ASSUME Shape, UNCHANGED <<written, open, text, top, tokens, pos>>,
         phase' \in {"write", "tokenize", "split", "rejected", "reported", "aborted"},
         phase' # "write" => phase # "write" \/ (written # <<>> /\ Class \in {"operand", "close"})
  PROVE  Shape'
<1>1. Types' /\ Placed'
  BY DEF Shape, Types, Placed, Proper, End
<1>2. Adjacent'
  BY DEF Shape, Adjacent, Neighbours, Class
<1>3. Templates'
  BY DEF Shape, Templates, IsOpenTemplate, InTemplate
<1>4. Balance'
  BY DEF Shape, Balance, Opened, Closed, Pending
<1> QED
  BY <1>1, <1>2, <1>3, <1>4 DEF Shape

\* The stage rests on the condition, the tokens and the position only.
LEMMA StageSame ==
  ASSUME UNCHANGED <<written, tokens, pos>>, NEW n, Stage(n)
  PROVE  Stage(n)'
<1>1. TemplateMistaken' <=> TemplateMistaken
  BY DEF TemplateMistaken
<1>2. Covered(n)'
  BY <1>1 DEF Stage, Covered, End
<1>3. Owned(n)'
  BY <1>1 DEF Stage, Owned, Own
<1>4. Brackets(n)'
  BY DEF Stage, Brackets, Opened, Closed
<1>5. Angles(n)'
  BY <1>1 DEF Stage, Angles, IsOpenTemplate
<1> QED
  BY <1>2, <1>3, <1>4, <1>5 DEF Stage

\* And so does Lexing.
LEMMA PhaseLexing ==
  ASSUME UNCHANGED <<written, tokens, pos>>, Lexing
  PROVE  Lexing'
<1>1. PICK n \in 0..Len(written) : Stage(n)
  BY DEF Lexing
<1>2. Stage(n)'
  BY <1>1, StageSame
<1>3. Ordered'
  BY DEF Lexing, Ordered, End
<1> QED
  BY <1>1, <1>2, <1>3 DEF Lexing

\* A round of the tokenizer preserves the invariant.
LEMMA TokenStep ==
  ASSUME TokenDiscipline, Token
  PROVE  TokenDiscipline'
<1>1. Shape /\ Lexing /\ Types /\ Ordered /\ phase = "tokenize"
  BY DEF TokenDiscipline, Shape, Lexing, Token
<1>2. PICK n \in 0..Len(written) : Stage(n)
  BY <1>1 DEF Lexing
<1>3. CASE Rejects
  <2>1. Shape'
    BY <1>1, <1>3, PhaseShape DEF Rejects
  <2>2. Lexing'
    BY <1>1, <1>3, PhaseLexing DEF Rejects
  <2>3. Outcome'
    BY <1>3 DEF Rejects, Outcome
  <2>4. phase' # "write"
    BY <1>3 DEF Rejects
  <2> QED
    BY <2>1, <2>2, <2>3, <2>4 DEF TokenDiscipline
<1>4. CASE \E m \in 0..Len(written) : Advances(m)
  <2>1. PICK m \in 0..Len(written) : Advances(m)
    BY <1>4
  <2>2. PICK t : Reads(t) /\ phase' = "tokenize" /\ Stage(m)'
    BY <2>1 DEF Advances
  <2>3. Shape'
    BY <1>1, <2>2, ReadsShape
  <2>4. Ordered'
    BY <1>1, <2>2, ReadsOrdered
  <2>5. Lexing'
    BY <2>2, <2>4 DEF Lexing, Reads
  <2>6. Outcome'
    BY <2>2 DEF Outcome
  <2>7. phase' # "write"
    BY <2>2
  <2> QED
    BY <2>3, <2>5, <2>6, <2>7 DEF TokenDiscipline
<1> QED
  BY <1>1, <1>2, <1>3, <1>4, TokenAdvances

\* Without tokens every count is zero.
LEMMA EmptyFacts ==
  ASSUME tokens = <<>>
  PROVE  /\ 1..Len(tokens) = {}
         /\ \A kind, c : Count(tokens, kind, c) = 0
<1>1. 1..Len(tokens) = {} /\ DOMAIN tokens = {}
  OBVIOUS
<1>2. ASSUME NEW kind, NEW c PROVE Count(tokens, kind, c) = 0
  <2>1. {i \in DOMAIN tokens : Is(tokens[i], kind, c)} = {}
    BY <1>1
  <2> QED
    BY <2>1, FS_EmptySet DEF Count
<1> QED
  BY <1>1, <1>2

\* Nothing is read while the author writes.
LEMMA NothingRead == tokens = <<>> /\ pos = 0 /\ Len(written) \in Nat => Lexing
<1> SUFFICES ASSUME tokens = <<>>, pos = 0, Len(written) \in Nat PROVE Lexing
  OBVIOUS
<1>1. 1..Len(tokens) = {} /\ \A kind, c : Count(tokens, kind, c) = 0
  BY EmptyFacts
<1>2. Ordered
  BY <1>1 DEF Ordered
<1>3. Opened(0) = {} /\ Closed(0) = {}
  BY DEF Opened, Closed
<1>4. Cardinality(Opened(0)) = 0 /\ Cardinality(Closed(0)) = 0
  BY <1>3, FS_EmptySet
<1>5. Covered(0)
  BY DEF Covered
<1>6. Owned(0)
  BY DEF Owned
<1>7. Brackets(0)
  BY <1>1, <1>4 DEF Brackets
<1>8. Angles(0)
  BY <1>1 DEF Angles
<1>9. Stage(0)
  BY <1>5, <1>6, <1>7, <1>8 DEF Stage
<1> QED
  BY <1>2, <1>9 DEF Lexing

\* It holds when the program starts.
LEMMA InitTokenDiscipline ==
  ASSUME Init
  PROVE  TokenDiscipline
<1>1. /\ written = <<>> /\ open = <<>> /\ text = <<>> /\ top = 0 /\ phase = "write"
      /\ tokens = <<>> /\ pos = 0
  BY DEF Init
<1>2. /\ Len(written) \in Nat /\ 1..Len(written) = {} /\ 1..Len(open) = {} /\ 1..Len(written) - 1 = {}
      /\ 1..Len(open) - 1 = {} /\ top \in 0..Len(written)
      /\ written \in Seq(Lexeme) /\ open \in Seq({"group", "call", "template"}) /\ text \in Seq(Character)
      /\ tokens \in Seq(LexedToken)
  BY <1>1
<1>3. Types
  BY <1>1, <1>2 DEF Types
<1>4. Placed
  BY <1>1, <1>2 DEF Placed
<1>5. Adjacent
  BY <1>1, <1>2 DEF Adjacent
<1>6. Templates
  <2>1. ~InTemplate
    BY <1>1 DEF InTemplate
  <2> QED
    BY <1>2, <2>1 DEF Templates
<1>7. Balance
  <2>1. 0 \in Nat /\ Len(written) = 0
    BY <1>1
  <2>2. Opened(Len(written)) = {} /\ Closed(Len(written)) = {} /\ Pending = {}
    BY <1>2 DEF Opened, Closed, Pending
  <2>3. Cardinality(Opened(Len(written))) = 0 /\ Cardinality(Closed(Len(written))) = 0 /\ Cardinality(Pending) = 0
    BY <2>2, FS_EmptySet
  <2> QED
    BY <1>2, <2>3 DEF Balance
<1>8. Shape
  BY <1>3, <1>4, <1>5, <1>6, <1>7 DEF Shape
<1>9. Lexing
  BY <1>1, <1>2, NothingRead
<1>10. Outcome
  BY <1>1 DEF Outcome
<1> QED
  BY <1>1, <1>8, <1>9, <1>10 DEF TokenDiscipline

\* The author preserves it,
LEMMA WritingStep ==
  ASSUME TokenDiscipline, Writing
  PROVE  TokenDiscipline'
<1>1. Types /\ Placed /\ Adjacent /\ Templates /\ Balance
  BY DEF TokenDiscipline, Shape
<1>2. PICK w : Grows(w) /\ After(w)
  BY <1>1, WritingGrows
<1>3. Shape'
  <2>1. Types'
    BY <1>1, <1>2, TypesGrow
  <2>2. Placed'
    BY <1>1, <1>2, PlacedGrow
  <2>3. Adjacent'
    BY <1>1, <1>2, AdjacentGrow
  <2>4. Templates'
    BY <1>1, <1>2, TemplatesGrow
  <2>5. Balance'
    BY <1>1, <1>2, BalanceGrow
  <2> QED
    BY <2>1, <2>2, <2>3, <2>4, <2>5 DEF Shape
<1>4. phase' = "write" /\ tokens' = <<>> /\ pos' = 0
  BY <1>2 DEF Grows, TokenDiscipline
<1>5. Len(written)' \in Nat
  BY <1>3, TypeFacts DEF Shape, Types
<1>6. Lexing'
  <2>1. (tokens = <<>> /\ pos = 0 /\ Len(written) \in Nat => Lexing)'
    BY NothingRead, PTL
  <2> QED
    BY <1>4, <1>5, <2>1
<1>7. Outcome'
  BY <1>4 DEF Outcome
<1> QED
  BY <1>3, <1>4, <1>6, <1>7 DEF TokenDiscipline

\* REQUIRE does,
LEMMA RequireStep ==
  ASSUME TokenDiscipline, Require
  PROVE  TokenDiscipline'
<1>1. Shape /\ Lexing /\ Types
  BY DEF TokenDiscipline, Shape
<1>2. phase' = "tokenize" /\ UNCHANGED <<written, open, text, top, tokens, pos>> /\ ~NeedsOperand
  BY DEF Require
<1>3. written # <<>> /\ Class \in {"operand", "close"}
  <2>1. Class # "none" /\ Class \notin {"prefix", "infix", "open"}
    BY <1>2 DEF NeedsOperand
  <2>2. written # <<>>
    BY <1>1, <2>1, ClassFacts
  <2>3. Class = written[Len(written)].class /\ Len(written) >= 1
    BY <1>1, <2>2, ClassFacts
  <2>4. Len(written) \in 1..Len(written)
    BY <1>1, <2>3, TypeFacts
  <2>5. written[Len(written)] \in Lexeme
    BY <1>1, <2>4, TypeFacts
  <2> QED
    BY <2>1, <2>2, <2>3, <2>5, LexemeFacts
<1>4. Shape'
  BY <1>1, <1>2, <1>3, PhaseShape
<1>5. Lexing'
  BY <1>1, <1>2, PhaseLexing
<1>6. Outcome'
  BY <1>2 DEF Outcome
<1> QED
  BY <1>2, <1>4, <1>5, <1>6 DEF TokenDiscipline

\* When no text is left, every lexeme was read to its end.
LEMMA AllRead ==
  ASSUME Shape, NEW n \in 0..Len(written), Stage(n), BlanksEnd = Len(text), written # <<>>
  PROVE  pos = Len(text) /\ n = Len(written)
<1> DEFINE T == Len(text)
           N == Len(written)
           b == BlanksEnd
<1>1. Types /\ Placed /\ Covered(n)
  BY DEF Shape, Stage
<1>2. N \in Nat /\ T \in Nat /\ pos \in Nat
  BY <1>1, TypeFacts
<1>3. N >= 1
  <2>1. Last(written) = written[N] /\ N >= 1
    BY <1>1, ClassFacts
  <2> QED
    BY <2>1
<1>4. ~(n > 0 /\ pos < End(written[n]))
  <2> SUFFICES ASSUME n > 0, pos < End(written[n]) PROVE FALSE
    OBVIOUS
  <2>1. n \in 1..N
    BY <1>2
  <2> DEFINE r == Past(written[n].str, pos - written[n].at)
             s == Past(text, pos)
             e == End(written[n])
  <2>2. r = Past(written[n].str, pos - written[n].at) /\ s = Past(text, pos)
    OBVIOUS
  <2> HIDE DEF r, s
  <2>3. b = pos
    BY <1>1, <2>1, <2>2, ResidueText
  <2>4. e <= T /\ e \in Nat
    BY <1>1, <2>1, PlacedFacts
  <2>5. pos < e /\ b = T
    OBVIOUS
  <2> HIDE DEF e, T, b
  <2> QED
    BY <1>2, <2>3, <2>4, <2>5
<1>5. pos = IF n = 0 THEN 0 ELSE End(written[n])
  <2>1. CASE n = 0
    BY <1>1, <2>1 DEF Covered
  <2>2. CASE n > 0
    <3> DEFINE e == End(written[n])
    <3>1. e \in Nat /\ pos <= e /\ ~(pos < e)
      BY <1>1, <1>2, <1>4, <2>2, PlacedFacts DEF Covered
    <3> HIDE DEF e
    <3>2. pos = e
      BY <1>2, <3>1
    <3> QED
      BY <2>2, <3>2 DEF e
  <2> QED
    BY <2>1, <2>2
<1>6. /\ n < N => b = written[n + 1].at
      /\ n = N /\ n > 0 => pos = T
  BY <1>1, <1>5, Gap
<1>7. ~(n < N)
  <2> SUFFICES ASSUME n < N PROVE FALSE
    OBVIOUS
  <2> DEFINE v == written[n + 1]
             e == End(v)
             l == Len(v.str)
  <2>1. n + 1 \in 1..N
    BY <1>2
  <2>2. e = v.at + l /\ e <= T /\ l \in Nat /\ 1 <= l /\ v.at \in Nat
    BY <1>1, <2>1, PlacedFacts
  <2>3. v.at = T
    <3>1. b = T
      OBVIOUS
    <3> QED
      BY <1>6, <3>1
  <2> HIDE DEF e, l, v, T
  <2> QED
    BY <1>2, <2>2, <2>3
<1>8. n = N /\ n > 0
  <2> HIDE DEF N
  <2> QED
    BY <1>2, <1>3, <1>7 DEF N
<1> QED
  BY <1>6, <1>8

\* the end of the text does,
LEMMA EndTokensStep ==
  ASSUME TokenDiscipline, EndTokens
  PROVE  TokenDiscipline'
<1>1. Shape /\ Lexing /\ Types /\ Adjacent /\ phase = "tokenize"
  BY DEF TokenDiscipline, Shape, EndTokens
<1>2. /\ UNCHANGED <<written, open, text, top, tokens, pos>>
      /\ phase' = IF Full THEN "rejected" ELSE "split"
      /\ ~Full => BlanksEnd = Len(text)
  BY DEF EndTokens
<1>3. Shape'
  BY <1>1, <1>2, PhaseShape
<1>4. Lexing'
  BY <1>1, <1>2, PhaseLexing
<1>5. Outcome'
  <2>1. CASE Full
    <3>1. RejectedOnly'
      BY <1>2, <2>1, Zenon DEF RejectedOnly, Full
    <3> QED
      BY <1>2, <2>1, <3>1 DEF Outcome
  <2>2. CASE ~Full
    <3>1. written # <<>>
      BY <1>1, AdjacentFacts
    <3>2. pos = Len(text)
      BY <1>1, <1>2, <2>2, <3>1, AllRead DEF Lexing
    <3>3. pos' = Len(text)' /\ phase' = "split"
      BY <1>2, <2>2, <3>2
    <3> QED
      BY <3>3 DEF Outcome
  <2> QED
    BY <2>1, <2>2
<1> QED
  BY <1>2, <1>3, <1>4, <1>5 DEF TokenDiscipline

\* The token searched for stays.
LEMMA LikeSame ==
  ASSUME UNCHANGED <<written, tokens, top>>
  PROVE  Like' = Like
  BY DEF Like, SelectInSeq

\* and the decomposition does.
LEMMA SplitStep ==
  ASSUME TokenDiscipline, Split
  PROVE  TokenDiscipline'
<1>1. Shape /\ Lexing /\ phase = "split" /\ pos = Len(text)
  BY DEF TokenDiscipline, Split, Outcome
<1>2. /\ UNCHANGED <<written, open, text, top, tokens, pos>>
      /\ \/ top = 0 /\ args' = <<tokens>> /\ phase' = "reported"
         \/ top # 0 /\ Like \in 2..Len(tokens) - 1 /\ args' = Parts(Like) /\ phase' = "reported"
         \/ top # 0 /\ Like \notin 2..Len(tokens) - 1 /\ phase' = "aborted"
  BY DEF Split, Like
<1>3. Shape'
  BY <1>1, <1>2, PhaseShape
<1>4. Lexing'
  BY <1>1, <1>2, PhaseLexing
<1>5. Like' = Like
  BY <1>2, LikeSame
<1>6. Parts(Like)' = Parts(Like)
  BY <1>2, <1>5 DEF Parts
<1>7. Outcome'
  <2>1. tokens' = tokens /\ top' = top /\ pos' = Len(text)'
    BY <1>1, <1>2
  <2> QED
    BY <1>2, <1>5, <1>6, <2>1 DEF Outcome
<1> QED
  BY <1>2, <1>3, <1>4, <1>7 DEF TokenDiscipline

\* Every step preserves it.
LEMMA NextStep ==
  ASSUME TokenDiscipline, [Next]_vars
  PROVE  TokenDiscipline'
<1>1. CASE Writing
  BY <1>1, WritingStep
<1>2. CASE Require
  BY <1>2, RequireStep
<1>3. CASE Token
  BY <1>3, TokenStep
<1>4. CASE EndTokens
  BY <1>4, EndTokensStep
<1>5. CASE Split
  BY <1>5, SplitStep
<1>6. CASE UNCHANGED vars
  <2>1. UNCHANGED <<written, open, text, top, phase, tokens, pos, args>>
    BY <1>6 DEF vars
  <2>2. Shape /\ Lexing /\ Outcome /\ Types
    BY DEF TokenDiscipline, Shape
  <2>3. phase \in {"write", "tokenize", "split", "rejected", "reported", "aborted"}
    BY <2>2 DEF Types
  <2>4. Shape'
    BY <2>1, <2>2, <2>3, PhaseShape
  <2>5. Lexing'
    BY <2>1, <2>2, PhaseLexing
  <2>6. Like' = Like /\ (Parts(Like)' = Parts(Like)) /\ (RejectedOnly' <=> RejectedOnly)
    <3>1. Like' = Like
      BY <2>1, LikeSame
    <3> QED
      BY <2>1, <3>1 DEF Parts, RejectedOnly, EndsInPrefix, HasFraction
  <2>7. Outcome'
    BY <2>1, <2>2, <2>6 DEF Outcome
  <2> QED
    BY <2>1, <2>4, <2>5, <2>7 DEF TokenDiscipline
<1> QED
  BY <1>1, <1>2, <1>3, <1>4, <1>5, <1>6 DEF Next

\* In every reachable state the Tokenizer stands behind a lexeme the author wrote or inside
\* an operator whose start it took for a bracket; every operand it has passed is a token of
\* its own, at its place; the tokens of round brackets are the brackets passed; and without
\* a less-than mistaken for the start of template arguments every lexeme is one token.
THEOREM TokenDisciplineInvariant == Spec => []TokenDiscipline
<1>1. Init => TokenDiscipline
  BY InitTokenDiscipline
<1>2. TokenDiscipline /\ [Next]_vars => TokenDiscipline'
  BY NextStep
<1> QED
  BY <1>1, <1>2, PTL DEF Spec

\* The order of the tokens is the one of their positions.
LEMMA TokenOrder ==
  ASSUME Types, Ordered, NEW j \in 1..Len(tokens), NEW k \in 1..Len(tokens)
  PROVE  /\ tokens[j] \in LexedToken /\ tokens[j].at \in Nat /\ End(tokens[j]) \in Nat
         /\ tokens[j].at < End(tokens[j])
         /\ j < k => End(tokens[j]) <= tokens[k].at /\ tokens[j].at < tokens[k].at
         /\ j <= k => tokens[j].at <= tokens[k].at /\ End(tokens[j]) <= End(tokens[k])
<1>1. tokens[j] \in LexedToken /\ tokens[k] \in LexedToken
  BY TypeFacts
<1> DEFINE a == tokens[j].at
           l == Len(tokens[j].str)
           e == End(tokens[j])
           b == tokens[k].at
           m == Len(tokens[k].str)
           f == End(tokens[k])
<1>2. a \in Nat /\ l \in Nat /\ 1 <= l /\ e = a + l /\ e \in Nat
  BY <1>1, TokenFacts
<1>3. b \in Nat /\ m \in Nat /\ 1 <= m /\ f = b + m /\ f \in Nat
  BY <1>1, TokenFacts
<1>4. j < k => e <= b
  BY DEF Ordered
<1>5. j = k => a = b /\ e = f
  OBVIOUS
<1>6. j \in Nat /\ k \in Nat
  BY TypeFacts
<1> HIDE DEF a, l, e, b, m, f
<1>7. a < e /\ (j < k => a < b)
  BY <1>2, <1>3, <1>4
<1>8. j <= k => a <= b /\ e <= f
  BY <1>2, <1>3, <1>4, <1>5, <1>6
<1> QED
  BY <1>1, <1>2, <1>4, <1>7, <1>8 DEF a, e, b, f

\* The token searched for is the first of its spelling.
LEMMA LikeFacts ==
  ASSUME Types
  PROVE  /\ Like \in Nat
         /\ Like # 0 => Like \in 1..Len(tokens) /\ tokens[Like].str = written[top].str
         /\ \A j \in 1..Len(tokens) : tokens[j].str = written[top].str => Like # 0 /\ Like <= j
<1> DEFINE I == {i \in 1..Len(tokens) : tokens[i].str = written[top].str}
<1>1. Like = IF I # {} THEN Min(I) ELSE 0
  BY DEF Like, SelectInSeq
<1>2. Len(tokens) \in Nat /\ I \in SUBSET Nat /\ I \subseteq 1..Len(tokens)
  BY TypeFacts
<1>3. I # {} => Min(I) \in I /\ \A i \in I : Min(I) <= i
  BY <1>2, MinOf
<1>4. \A j \in 1..Len(tokens) : tokens[j].str = written[top].str => j \in I
  OBVIOUS
<1>5. \A j \in I : j \in 1..Len(tokens) /\ tokens[j].str = written[top].str
  OBVIOUS
<1> HIDE DEF I
<1>6. CASE I = {}
  BY <1>1, <1>4, <1>6
<1>7. CASE I # {}
  <2>1. Like \in I /\ \A i \in I : Like <= i
    BY <1>1, <1>3, <1>7
  <2>2. Like \in 1..Len(tokens) /\ tokens[Like].str = written[top].str
    BY <1>5, <2>1
  <2>3. Like \in Nat /\ Like # 0
    BY <1>2, <2>2
  <2> QED
    BY <1>4, <2>1, <2>2, <2>3
<1> QED
  BY <1>6, <1>7

\* Both sides of the split.
LEMMA PartsFacts ==
  ASSUME tokens \in Seq(LexedToken), NEW k \in 2..Len(tokens) - 1
  PROVE  /\ Len(Parts(k)) = 2 /\ DOMAIN Parts(k) = {1, 2}
         /\ DOMAIN Parts(k)[1] = 1..k - 1 /\ \A j \in 1..k - 1 : Parts(k)[1][j] = tokens[j]
         /\ Last(Parts(k)[1]) = tokens[k - 1]
         /\ DOMAIN Parts(k)[2] = 1..Len(tokens) - k
         /\ \A j \in 1..Len(tokens) - k : Parts(k)[2][j] = tokens[k + j]
         /\ Parts(k)[2][1] = tokens[k + 1] /\ Last(Parts(k)[2]) = tokens[Len(tokens)]
<1> DEFINE N == Len(tokens)
           u == SubSeq(tokens, 1, k - 1)
           v == Past(tokens, k)
<1>1. N \in Nat /\ k \in Nat /\ 2 <= k /\ k <= N - 1
  OBVIOUS
<1>2. /\ u \in Seq(LexedToken) /\ Len(u) = k - 1 /\ DOMAIN u = 1..k - 1
      /\ \A j \in 1..k - 1 : u[j] = tokens[j]
  BY <1>1
<1>3. /\ v \in Seq(LexedToken) /\ Len(v) = N - k /\ DOMAIN v = 1..N - k
      /\ \A j \in 1..N - k : v[j] = tokens[k + j]
  BY <1>1 DEF Past
<1>4. Parts(k) = <<u, v>>
  BY DEF Parts
<1> HIDE DEF u, v
<1>5. Len(<<u, v>>) = 2 /\ DOMAIN <<u, v>> = {1, 2} /\ <<u, v>>[1] = u /\ <<u, v>>[2] = v
  OBVIOUS
<1>6. Last(u) = tokens[k - 1]
  <2>1. Last(u) = u[Len(u)]
    BY DEF Last
  <2>2. k - 1 \in 1..k - 1
    BY <1>1
  <2> QED
    BY <1>2, <2>1, <2>2
<1>7. v[1] = tokens[k + 1] /\ Last(v) = tokens[N]
  <2>1. Last(v) = v[Len(v)]
    BY DEF Last
  <2>2. 1 \in 1..N - k /\ N - k \in 1..N - k /\ k + (N - k) = N
    BY <1>1
  <2> QED
    BY <1>3, <2>1, <2>2
<1> QED
  BY <1>2, <1>3, <1>4, <1>5, <1>6, <1>7

----------------------------------------------------------------------------
(* What the invariant says of the report.                                  *)

\* An operand is not spelled like a comparison, and neither is what a
\* condition may start with.
LEMMA NoComparison ==
  ASSUME NEW w \in Lexeme, Proper(w),
         w.class \in {"operand", "prefix"} \/ (w.class = "open" /\ w.str = <<"(">>)
  PROVE  w.str \notin Comparisons
<1> DEFINE x == w.str
<1>1. ASSUME x \in Comparisons
      PROVE  /\ x[1] \in {"=", "<", ">", "!"}
             /\ x[1] = "!" => x = <<"!", "=">>
  <2>1. CASE x = <<"=", "=">>
    BY <2>1
  <2>2. CASE x = <<"!", "=">>
    BY <2>2
  <2>3. CASE x = <<"<">>
    BY <2>3
  <2>4. CASE x = <<"<", "=">>
    BY <2>4
  <2>5. CASE x = <<">">>
    BY <2>5
  <2>6. CASE x = <<">", "=">>
    BY <2>6
  <2> QED
    BY <1>1, <2>1, <2>2, <2>3, <2>4, <2>5, <2>6 DEF Comparisons
<1>2. CASE w.class = "operand"
  <2>1. PICK o \in Operands : x = o.str
    BY <1>2 DEF Proper
  <2>2. o.str[1] \in Word \cup Quotes \/ o.str[1] = "."
    BY OperandStart
  <2>3. "!" \notin Word \cup Quotes
    <3>1. "!" \in Marks
      BY DEF Marks
    <3> QED
      BY <3>1, MarkFacts
  <2>4. x[1] # "!"
    BY <2>1, <2>2, <2>3
  <2>5. x[1] \notin {"=", ">", "<", "(", ")"}
    BY <1>2, LexemeStart
  <2> QED
    BY <1>1, <2>4, <2>5
<1>3. CASE w.class = "prefix"
  <2>1. x \in Keywords \cup {<<"+">>, <<"-">>, <<"~">>, <<"!">>, <<"*">>, <<"&">>}
    BY <1>3, AssumedOperators DEF Proper
  <2>2. x[1] \notin {"=", ">", "<", "(", ")"}
    BY <1>3, LexemeStart
  <2>3. x # <<"!", "=">>
    <3>1. <<"!", "=">> \notin Keywords
      <4> DEFINE y == <<"!", "=">>
      <4>1. y \in Punctuators /\ y[1] = "!"
        BY DEF Punctuators, BinaryOperators
      <4>2. "!" \notin Word
        <5>1. "!" \in Marks
          BY DEF Marks
        <5> QED
          BY <5>1, MarkFacts
      <4> HIDE DEF y
      <4>3. y \in Keywords => y[1] \in Word
        <5> SUFFICES ASSUME y \in Keywords PROVE y[1] \in Word
          OBVIOUS
        <5>1. 1 \in 1..Len(y)
          BY KeywordsSpell
        <5> QED
          BY <5>1, KeywordsSpell
      <4> QED
        BY <4>1, <4>2, <4>3 DEF y
    <3>2. \A c : <<"!", "=">> # <<c>>
      OBVIOUS
    <3> QED
      BY <2>1, <3>1, <3>2
  <2> QED
    BY <1>1, <2>2, <2>3
<1>4. CASE w.class = "open" /\ w.str = <<"(">>
  <2>1. x[1] = "("
    BY <1>4
  <2> QED
    BY <1>1, <2>1
<1> QED
  BY <1>2, <1>3, <1>4

\* The invariant, expanded.
LEMMA TokenDisciplineFacts ==
  ASSUME TokenDiscipline
  PROVE  Shape /\ Types /\ Placed /\ Adjacent /\ Ordered /\ Outcome /\ \E n \in 0..Len(written) : Stage(n)
  BY DEF TokenDiscipline, Shape, Lexing

\* The tokens of all operands are there in the report.
LEMMA OperandsAreWhole ==
  ASSUME TokenDiscipline
  PROVE  OperandsWhole
<1>1. Types /\ Placed
  BY TokenDisciplineFacts
<1>2. DOMAIN written = 1..Len(written) /\ Len(written) \in Nat /\ DOMAIN tokens = 1..Len(tokens) /\ pos \in Nat
  BY <1>1, TypeFacts
<1>3. PICK n \in 0..Len(written) : Stage(n)
  BY TokenDisciplineFacts
<1> SUFFICES ASSUME NEW i \in 1..Len(written), written[i].class = "operand", End(written[i]) <= pos
             PROVE  \E j \in 1..Len(tokens) :
                       /\ tokens[j].kind = written[i].kind /\ tokens[j].str = written[i].str
                       /\ tokens[j].at = written[i].at
  BY <1>2 DEF OperandsWhole
<1>4. i <= n
  <2> SUFFICES ASSUME ~(i <= n) PROVE FALSE
    OBVIOUS
  <2> DEFINE w == written[i]
             a == w.at
             l == Len(w.str)
             e == End(w)
             f == End(written[n])
  <2>1. a \in Nat /\ l \in Nat /\ 1 <= l /\ e = a + l /\ e <= pos
    BY <1>1, PlacedFacts
  <2>2. CASE n = 0
    <3>1. pos = 0
      BY <1>3, <2>2 DEF Stage, Covered
    <3> HIDE DEF a, l, e
    <3> QED
      BY <2>1, <3>1
  <2>3. CASE n > 0
    <3>1. pos <= f
      BY <1>3, <2>3 DEF Stage, Covered
    <3>2. n \in 1..Len(written) /\ n < i
      BY <1>2, <2>3
    <3>3. f <= a /\ f \in Nat
      BY <1>1, <3>2, PlacedFacts
    <3> HIDE DEF a, l, e, f
    <3> QED
      BY <1>2, <2>1, <3>1, <3>3
  <2> QED
    BY <1>2, <2>2, <2>3
<1>5. i \in 1..n
  BY <1>2, <1>4
<1>6. Own(i)
  BY <1>3, <1>5 DEF Stage, Owned
<1> QED
  BY <1>6 DEF Own

\* At the end of the text every operand has its token, and without a mistake
\* every lexeme.
LEMMA Finished ==
  ASSUME TokenDiscipline, phase \in {"split", "reported", "aborted"}
  PROVE  /\ Len(written) >= 1 /\ Len(written) \in Nat
         /\ \A i \in 1..Len(written) : ~TemplateMistaken \/ written[i].class = "operand" => Own(i)
<1> DEFINE N == Len(written)
           T == Len(text)
           s == Past(text, pos)
           b == BlanksEnd
<1>1. Shape /\ Types /\ Adjacent /\ pos = T
  BY TokenDisciplineFacts DEF Outcome
<1>2. written # <<>> /\ N >= 1 /\ N \in Nat
  BY <1>1, AdjacentFacts, TypeFacts
<1>3. text \in Seq(Character) /\ T \in Nat
  BY <1>1, TypeFacts
<1>4. b = T
  <2>1. T \in 0..T
    BY <1>3
  <2>2. Past(text, T) \in Seq(Character) /\ Len(Past(text, T)) = T - T
    BY <1>3, <2>1, PastProps
  <2>3. s \in Seq(Character) /\ Len(s) = T - T
    BY <1>1, <2>2
  <2>4. Span(s, Blank) \in 0..Len(s)
    BY <2>3, SpanProps
  <2>5. Span(s, Blank) = 0
    BY <1>3, <2>3, <2>4
  <2> QED
    BY <1>1, <1>3, <2>5 DEF BlanksEnd
<1>5. PICK n \in 0..N : Stage(n)
  BY TokenDisciplineFacts
<1>6. n = N
  BY <1>1, <1>2, <1>4, <1>5, AllRead
<1>7. Owned(N)
  BY <1>5, <1>6 DEF Stage
<1> QED
  BY <1>2, <1>7 DEF Owned

\* Without a mistake the comparison the compiler decomposes at is found.
LEMMA LikeInside ==
  ASSUME TokenDiscipline, phase \in {"split", "reported", "aborted"}, top # 0, ~TemplateMistaken
  PROVE  /\ Like \in 2..Len(tokens) - 1
         /\ \E j \in 1..Len(tokens) : /\ tokens[j].str = written[top].str
                                      /\ tokens[j].at = written[top].at /\ Like <= j
<1> DEFINE N == Len(written)
           M == Len(tokens)
<1>1. Types /\ Placed /\ Adjacent /\ Ordered
  BY TokenDisciplineFacts
<1>2. /\ N \in Nat /\ N >= 1 /\ M \in Nat /\ top \in 1..N
      /\ written[top].class = "infix" /\ written[top].str \in Comparisons
  BY <1>1, TypeFacts, Finished DEF Types
<1>3. \A i \in 1..N : Own(i)
  BY Finished
<1>4. PICK j \in 1..M : tokens[j].str = written[top].str /\ tokens[j].at = written[top].at
  BY <1>2, <1>3 DEF Own
<1>5. Like \in 1..M /\ tokens[Like].str = written[top].str /\ Like <= j /\ Like \in Nat
  BY <1>1, <1>4, LikeFacts
<1>6. 1 \in 1..N
  BY <1>2
<1>7. PICK f \in 1..M : tokens[f].str = written[1].str /\ tokens[f].at = written[1].at
  BY <1>3, <1>6 DEF Own
<1>8. 1 \in 1..M
  BY <1>7, <1>2
<1>9. f = 1
  <2>1. written[1].at = 0
    BY <1>1, <1>2, PlacedFacts
  <2>2. 1 < f => tokens[1].at < tokens[f].at /\ tokens[1].at \in Nat
    BY <1>1, <1>8, TokenOrder
  <2> QED
    BY <1>2, <1>7, <2>1, <2>2
<1>10. written[1].str \notin Comparisons
  <2>1. /\ written[1].class \in {"operand", "prefix", "open"}
        /\ written[1].class = "open" => written[1].str = <<"(">>
    BY <1>1, <1>2, AdjacentFacts
  <2>2. written[1] \in Lexeme /\ Proper(written[1])
    BY <1>1, <1>6, TypeFacts
  <2> QED
    BY <2>1, <2>2, NoComparison
<1>11. Like # 1
  BY <1>2, <1>5, <1>7, <1>9, <1>10
<1>12. top + 1 \in 1..N /\ top \in 1..N - 1
  <2>1. written[N].class \in {"operand", "close"}
    <3>1. phase # "write"
      OBVIOUS
    <3> QED
      BY <1>1, <3>1, AdjacentFacts
  <2>2. top # N
    BY <1>2, <2>1
  <2> HIDE DEF N
  <2> QED
    BY <1>2, <2>2
<1>13. PICK k \in 1..M : tokens[k].str = written[top + 1].str /\ tokens[k].at = written[top + 1].at
  BY <1>3, <1>12 DEF Own
<1>14. j < k
  <2>1. End(written[top]) <= written[top + 1].at
    <3>1. top < top + 1
      BY <1>2
    <3> QED
      BY <1>1, <1>2, <1>12, <3>1, PlacedFacts
  <2>2. written[top].at < written[top + 1].at
    <3> DEFINE a == written[top].at
               l == Len(written[top].str)
               e == End(written[top])
               b == written[top + 1].at
    <3>1. a \in Nat /\ l \in Nat /\ 1 <= l /\ e = a + l
      BY <1>1, <1>2, PlacedFacts
    <3>2. b \in Nat /\ e <= b
      BY <1>1, <1>12, <2>1, PlacedFacts
    <3> HIDE DEF a, l, e, b
    <3>3. a < b
      BY <3>1, <3>2
    <3> QED
      BY <3>3 DEF a, b
  <2>3. k <= j => tokens[k].at <= tokens[j].at
    BY <1>1, TokenOrder
  <2>4. tokens[j].at \in Nat /\ tokens[k].at \in Nat
    BY <1>1, TokenOrder
  <2>5. tokens[j].at < tokens[k].at
    BY <1>4, <1>13, <2>2
  <2>6. ~(k <= j)
    BY <2>3, <2>4, <2>5
  <2> QED
    BY <1>2, <2>6
<1>15. Like \in 2..M - 1
  <2> DEFINE L == Like
  <2>1. L \in 1..M /\ L <= j /\ L # 1
    BY <1>5, <1>11
  <2> HIDE DEF L, M
  <2>2. L \in 2..M - 1
    BY <1>2, <1>14, <2>1
  <2> QED
    BY <2>2 DEF L
<1> QED
  BY <1>4, <1>5, <1>15

\* The search for the comparison fails only after a mistake.
LEMMA OnlyAborted ==
  ASSUME TokenDiscipline
  PROVE  AbortedOnly
<1> SUFFICES ASSUME phase = "aborted", ~TemplateMistaken PROVE FALSE
  BY DEF AbortedOnly
<1>1. top # 0 /\ Like \notin 2..Len(tokens) - 1
  BY TokenDisciplineFacts DEF Outcome
<1> QED
  BY <1>1, LikeInside

\* The condition is split where the compiler decomposes it.
LEMMA SplitThere ==
  ASSUME TokenDiscipline
  PROVE  SplitAtComparison
<1> DEFINE M == Len(tokens)
           k == Like
<1> SUFFICES ASSUME phase = "reported", top # 0, ~TemplateMistaken,
                    ~\E j \in DOMAIN tokens :
                        tokens[j].at < written[top].at /\ tokens[j].str = written[top].str
             PROVE  /\ Len(args) = 2
                    /\ End(Last(args[1])) <= written[top].at
                    /\ args[2][1].at >= End(written[top])
  BY DEF SplitAtComparison
<1>1. Types /\ Placed /\ Ordered /\ tokens \in Seq(LexedToken) /\ M \in Nat /\ DOMAIN tokens = 1..M
      /\ top \in 1..Len(written)
  BY TokenDisciplineFacts, TypeFacts
<1>2. k \in 2..M - 1 /\ args = Parts(k)
  BY TokenDisciplineFacts, LikeInside DEF Outcome
<1>3. PICK j \in 1..M : tokens[j].str = written[top].str /\ tokens[j].at = written[top].at /\ k <= j
  BY LikeInside
<1>4. k \in 1..M /\ k \in Nat /\ tokens[k].str = written[top].str /\ k - 1 \in 1..M /\ k + 1 \in 1..M
      /\ k - 1 < k /\ k < k + 1
  <2>1. tokens[k].str = written[top].str
    BY <1>1, <1>3, LikeFacts
  <2> HIDE DEF k, M
  <2> QED
    BY <1>1, <1>2, <2>1
<1>5. tokens[k].at = written[top].at
  <2>1. ~(tokens[k].at < written[top].at)
    BY <1>1, <1>4
  <2>2. k < j => tokens[k].at < tokens[j].at
    BY <1>1, <1>4, TokenOrder
  <2>3. k = j
    <3> HIDE DEF k
    <3>1. ~(k < j)
      BY <1>3, <2>1, <2>2
    <3> QED
      BY <1>1, <1>3, <1>4, <3>1
  <2> QED
    BY <1>3, <2>3
<1>6. End(tokens[k - 1]) <= tokens[k].at /\ End(tokens[k]) <= tokens[k + 1].at /\ tokens[k + 1].at \in Nat
      /\ End(tokens[k]) \in Nat
  BY <1>1, <1>4, TokenOrder
<1>7. End(tokens[k]) = End(written[top])
  BY <1>4, <1>5 DEF End
<1>8. /\ Len(Parts(k)) = 2 /\ Last(Parts(k)[1]) = tokens[k - 1] /\ Parts(k)[2][1] = tokens[k + 1]
  BY <1>1, <1>2, PartsFacts
<1> HIDE DEF k
<1>9. Len(args) = 2
  BY <1>2, <1>8, Zenon
<1>10. End(Last(args[1])) <= written[top].at
  BY <1>2, <1>5, <1>6, <1>8
<1>11. args[2][1].at >= End(written[top])
  <2> DEFINE e == End(written[top])
             b == tokens[k + 1].at
  <2>1. e <= b /\ e \in Nat /\ b \in Nat
    BY <1>6, <1>7
  <2> HIDE DEF e, b
  <2>2. b >= e
    BY <2>1
  <2> QED
    BY <1>2, <1>8, <2>2 DEF b, e
<1> QED
  BY <1>9, <1>10, <1>11

\* Every variable the condition names is listed.
LEMMA WhereIsComplete ==
  ASSUME TokenDiscipline
  PROVE  WhereComplete
<1> DEFINE M == Len(tokens)
           k == Like
<1> SUFFICES ASSUME phase = "reported", NEW i \in DOMAIN written,
                    written[i].class = "operand", written[i].kind = "Identifier"
             PROVE  \E a \in Shown :
                        args[a][1].at <= written[i].at /\ End(written[i]) <= End(Last(args[a]))
  BY DEF WhereComplete
<1>1. Types /\ Ordered /\ tokens \in Seq(LexedToken) /\ M \in Nat /\ DOMAIN tokens = 1..M
      /\ i \in 1..Len(written) /\ written[i] \in Lexeme /\ Proper(written[i])
  <2>1. Types /\ Ordered
    BY TokenDisciplineFacts
  <2>2. DOMAIN written = 1..Len(written)
    BY <2>1, TypeFacts
  <2> QED
    BY <2>1, <2>2, TypeFacts
<1>2. Own(i)
  BY <1>1, Finished
<1>3. PICK j \in 1..M : tokens[j].str = written[i].str /\ tokens[j].at = written[i].at
                        /\ tokens[j].kind = "Identifier"
  BY <1>2 DEF Own
<1>4. End(tokens[j]) = End(written[i])
  BY <1>3 DEF End
<1>5. CASE top = 0
  <2>1. args = <<tokens>>
    BY <1>5, TokenDisciplineFacts DEF Outcome
  <2>2. DOMAIN args = {1} /\ args[1] = tokens
    BY <2>1
  <2>3. 1 \in Shown
    BY <1>1, <1>3, <2>2 DEF Shown
  <2>4. 1 \in 1..M /\ M \in 1..M /\ 1 <= j /\ j <= M
    BY <1>1
  <2>5. tokens[1].at <= tokens[j].at /\ End(tokens[j]) <= End(tokens[M])
    BY <1>1, <2>4, TokenOrder
  <2>6. Last(tokens) = tokens[M]
    BY DEF Last
  <2> QED
    BY <1>3, <1>4, <2>2, <2>3, <2>5, <2>6
<1>6. CASE top # 0
  <2>1. k \in 2..M - 1 /\ args = Parts(k)
    BY <1>6, TokenDisciplineFacts DEF Outcome
  <2>2. /\ DOMAIN args = {1, 2}
        /\ DOMAIN args[1] = 1..k - 1 /\ \A m \in 1..k - 1 : args[1][m] = tokens[m]
        /\ Last(args[1]) = tokens[k - 1]
        /\ DOMAIN args[2] = 1..M - k
        /\ \A m \in 1..M - k : args[2][m] = tokens[k + m]
        /\ args[2][1] = tokens[k + 1] /\ Last(args[2]) = tokens[M]
    BY <1>1, <2>1, PartsFacts
  <2>3. tokens[k].str \in Comparisons /\ k \in Nat /\ k \in 1..M
    <3>1. k # 0
      BY <2>1
    <3>2. tokens[k].str = written[top].str /\ k \in 1..M /\ k \in Nat
      BY <1>1, <3>1, LikeFacts
    <3>3. written[top].str \in Comparisons
      BY <1>1, <1>6 DEF Types
    <3> QED
      BY <3>2, <3>3
  <2>4. j # k
    BY <1>1, <1>3, <2>3, NoComparison
  <2> HIDE DEF k, M
  <2>5. CASE j < k
    <3>1. j \in 1..k - 1 /\ 1 \in 1..k - 1 /\ 1 \in 1..M /\ k - 1 \in 1..M /\ 1 <= j /\ j <= k - 1
      BY <1>1, <2>1, <2>3, <2>5
    <3>2. args[1][j] = tokens[j] /\ args[1][1] = tokens[1]
      BY <2>2, <3>1
    <3>3. 1 \in Shown
      BY <1>3, <2>2, <3>1, <3>2 DEF Shown
    <3>4. tokens[1].at <= tokens[j].at /\ End(tokens[j]) <= End(tokens[k - 1])
      BY <1>1, <3>1, TokenOrder DEF M
    <3> QED
      BY <1>3, <1>4, <2>2, <3>2, <3>3, <3>4
  <2>6. CASE j > k
    <3>1. j - k \in 1..M - k /\ k + (j - k) = j /\ k + 1 \in 1..M /\ M \in 1..M /\ k + 1 <= j /\ j <= M
      BY <1>1, <2>1, <2>3, <2>6
    <3>2. args[2][j - k] = tokens[j]
      BY <2>2, <3>1
    <3>3. 2 \in Shown
      BY <1>3, <2>2, <3>1, <3>2 DEF Shown
    <3>4. tokens[k + 1].at <= tokens[j].at /\ End(tokens[j]) <= End(tokens[M])
      BY <1>1, <3>1, TokenOrder DEF M
    <3> QED
      BY <1>3, <1>4, <2>2, <3>3, <3>4
  <2> QED
    BY <1>1, <2>3, <2>4, <2>5, <2>6
<1> QED
  BY <1>5, <1>6

\* Whatever is_grouping and the operator matchers decide, every operand the Tokenizer has
\* passed is one token of the operand's kind and spelling at the operand's place: none is
\* cut, joined to what stands next to it or taken for another kind.
THEOREM OperandsWholeCorrect == Spec => []OperandsWhole
<1>1. TokenDiscipline => OperandsWhole
  BY OperandsAreWhole
<1> QED
  BY <1>1, TokenDisciplineInvariant, PTL

\* The Tokenizer throws on a condition the compiler accepts only for more tokens than the
\* array holds, for a last operand that is spelled like the prefix of a string literal, or
\* for a hexadecimal float with a point.
THEOREM RejectedOnlyCorrect == Spec => []RejectedOnly
<1>1. TokenDiscipline => RejectedOnly
  BY Zenon DEF TokenDiscipline, Outcome, RejectedOnly
<1> QED
  BY <1>1, TokenDisciplineInvariant, PTL

\* The search for the comparison the compiler decomposes at fails, which ends the grader,
\* only after a less-than was mistaken for the start of template arguments.
THEOREM AbortedOnlyCorrect == Spec => []AbortedOnly
<1>1. TokenDiscipline => AbortedOnly
  BY OnlyAborted
<1> QED
  BY <1>1, TokenDisciplineInvariant, PTL

\* The condition is split at the comparison the compiler decomposes it at, unless an earlier
\* token is spelled like it or a less-than was mistaken for a template bracket.
THEOREM SplitAtComparisonCorrect == Spec => []SplitAtComparison
<1>1. TokenDiscipline => SplitAtComparison
  BY SplitThere
<1> QED
  BY <1>1, TokenDisciplineInvariant, PTL

\* Every identifier the author wrote stands in an operand that the report lists under Where,
\* however the condition was split.
THEOREM WhereCompleteCorrect == Spec => []WhereComplete
<1>1. TokenDiscipline => WhereComplete
  BY WhereIsComplete
<1> QED
  BY <1>1, TokenDisciplineInvariant, PTL
============================================================================
