----------------------------- MODULE Requirement -----------------------------
(* From the condition of a REQUIRE to the operands its report shows. The     *)
(* preprocessor hands the condition's text to the Tokenizer while the        *)
(* compiler decomposes the expression itself at its top-level comparison;    *)
(* Requirement then looks for that comparison among the tokens.              *)
EXTENDS Tokenizer

CONSTANTS
    Operands,       \* identifiers and literals: records [kind, str]
    Unaries,       \* unary operators
    Infixes,        \* binary operators
    MaxLexemes,     \* bound on the lexemes of a condition
    Plain,          \* an operand that conditions repeat freely
    MaxOthers,      \* bound on the operands of a condition that are not Plain
    MaxNumTokens    \* the capacity of Tokenizer's array

VARIABLES
    written,    \* the condition's lexemes: [class, kind, str, at]
    open,       \* the brackets not yet closed
    spaced,     \* whether the author puts blanks around binary operators
    text,       \* #condition
    top,        \* index of the comparison the compiler decomposes at, or 0
    phase,
    tokens, pos,    \* Tokenizer::tokens_ and how much of the text they cover
    args            \* arg_tokens: one or two runs of tokens
vars == <<written, open, spaced, text, top, phase, tokens, pos, args>>

\* A point with a digit behind it. In a hexadecimal float it makes the
\* Tokenizer throw.
Fraction(str) == \E i \in 1 .. Len(str) - 1 : str[i] = "." /\ str[i + 1] \in HexDigits

\* An identifier or a literal of C++: on its own it is one token. C++ refuses
\* an exponent without digits and a raw string that does not end; it accepts
\* hexadecimal floats with a fraction, for which the Tokenizer throws.
Wellformed(o) ==
    /\ IF o.kind = "Identifier" THEN MatchesIdentifier(o.str)
       ELSE o.kind \in Literals /\ NextKind(o.str, <<>>) = o.kind
    /\ \/ Parse(o.kind, o.str) = Len(o.str)
       \/ /\ Parse(o.kind, o.str) = Throws
          /\ o.kind = "FloatHexLiteral" /\ Fraction(o.str)
    /\ o.kind = "RawStringLiteral" => RawEnds(o.str) # {}
    /\ o.kind = "FloatLiteral" => Last(o.str) \notin {"e", "E"}
    /\ o.kind = "FloatHexLiteral" => Last(o.str) \notin {"p", "P"}

RequirementAssumption ==
    /\ MaxLexemes \in Nat /\ MaxOthers \in Nat /\ MaxNumTokens \in Nat
    /\ Plain \in Operands
    /\ \A o \in Operands : o.str \in Seq(STRING) \ {<<>>} /\ Wellformed(o)
    \* Without ++ and --, which have no place in a condition.
    /\ Unaries \subseteq Keywords \cup {<<"+">>, <<"-">>, <<"~">>, <<"!">>, <<"*">>, <<"&">>}
    \* Without .*, which C++ does not allow after most operands.
    /\ Infixes \subseteq BinaryOperators \ {<<".", "*">>}
ASSUME RequirementAssumption

Init ==
    /\ written = <<>> /\ open = <<>> /\ text = <<>> /\ top = 0
    /\ spaced \in BOOLEAN
    /\ phase = "write"
    /\ tokens = <<>> /\ pos = 0 /\ args = <<>>

-----------------------------------------------------------------------------
(* The author writes a condition the compiler accepts.                       *)

Comparisons == {<<"=", "=">>, <<"!", "=">>, <<"<">>, <<"<", "=">>, <<">">>, <<">", "=">>}
\* Binary operators that bind less than a comparison: decomposer.hpp rejects
\* them outside brackets.
Lower == {<<"&", "&">>, <<"|", "|">>, <<"&">>, <<"|">>, <<"^">>, <<"=">>, <<",">>}
Members == {<<"-", ">">>, <<".">>, <<":", ":">>}

Class == IF written = <<>> THEN "none" ELSE Last(written).class
NeedsOperand == Class \in {"none", "prefix", "infix", "open"}
AfterMember == Class = "infix" /\ Last(written).str \in Members
\* What a call, a member access or template arguments may follow.
AfterName == Class = "operand" /\ Last(written).kind = "Identifier"
AfterCallee == AfterName \/ Class = "close"
InTemplate == open # <<>> /\ Last(open) = "template"

Punctuators == BinaryOperators \cup Operators
\* Two lexemes stand apart where C++ would otherwise read them as one.
Glue(left, right) ==
    \/ Last(left) \in Word /\ Head(right) \in Word
    \/ \E op \in Punctuators : IsPrefix(Append(left, Head(right)), op)

Write(class, kind, str) ==
    LET apart == /\ written # <<>>
                 /\ \/ spaced /\ "infix" \in {class, Class}
                    \/ Glue(Last(written).str, str)
        before == IF apart THEN Append(text, " ") ELSE text
    IN  /\ phase = "write"
        /\ written' = Append(written, [class |-> class, kind |-> kind, str |-> str,
                                       at |-> Len(before)])
        /\ text' = before \o str
        /\ UNCHANGED <<spaced, phase, tokens, pos, args>>

Room(n) == Len(written) + Len(open) + n <= MaxLexemes

Others == {i \in DOMAIN written : written[i].class = "operand" /\ written[i].str # Plain.str}
WriteOperand ==
    /\ NeedsOperand /\ Room(1)
    /\ \E o \in Operands :
          /\ o # Plain => Cardinality(Others) < MaxOthers
          /\ (AfterMember \/ InTemplate) => o.kind = "Identifier"
          /\ Write("operand", o.kind, o.str)
    /\ UNCHANGED <<open, top>>

WritePrefix ==
    /\ NeedsOperand /\ ~AfterMember /\ ~InTemplate /\ Room(2)
    /\ \E str \in Unaries : Write("prefix", "Operator", str)
    /\ UNCHANGED <<open, top>>

WriteInfix ==
    /\ ~NeedsOperand /\ ~InTemplate /\ Room(2)
    /\ \E str \in Infixes :
          /\ str \in Members => AfterCallee
          /\ open = <<>> => /\ str \notin Lower
                           /\ (str \in Comparisons => top = 0)
          /\ Write("infix", "BinaryOperator", str)
          /\ top' = IF open = <<>> /\ str \in Comparisons THEN Len(written) + 1 ELSE top
    /\ UNCHANGED open

OpenGroup ==
    /\ NeedsOperand /\ ~AfterMember /\ ~InTemplate /\ Room(3)
    /\ Write("open", "Grouping", <<"(">>)
    /\ open' = Append(open, "group")
    /\ UNCHANGED top

OpenCall ==
    /\ AfterCallee /\ ~InTemplate /\ Room(2)
    /\ Write("open", "Operator", <<"(">>)
    /\ open' = Append(open, "call")
    /\ UNCHANGED top

OpenTemplate ==
    /\ AfterName /\ ~InTemplate /\ Room(3)
    /\ Write("open", "Grouping", <<"<">>)
    /\ open' = Append(open, "template")
    /\ UNCHANGED top

Close ==
    /\ open # <<>>
    /\ NeedsOperand => Class = "open" /\ Last(open) = "call"
    /\ Write("close", IF Last(open) = "call" THEN "Operator" ELSE "Grouping",
             IF InTemplate THEN <<">">> ELSE <<")">>)
    /\ open' = Front(open)
    /\ UNCHANGED top

-----------------------------------------------------------------------------
(* The program meets the REQUIRE.                                            *)

\* The condition is complete and REQUIRE constructs the Tokenizer.
Require ==
    /\ phase = "write" /\ ~NeedsOperand /\ open = <<>>
    /\ phase' = "tokenize"
    /\ UNCHANGED <<written, open, spaced, text, top, tokens, pos, args>>

\* Mutant of BlanksEnd: blanks are left to the matchers.
BlanksKept == pos

\* Where the text goes on when leading blanks are consumed.
BlanksEnd == pos + Span(Past(text, pos), Blank)

\* The loop over the array has ended.
Full == Len(tokens) = MaxNumTokens

\* One round of parse_all. A ParsingError leaves the test's body.
Token ==
    /\ phase = "tokenize" /\ BlanksEnd < Len(text) /\ ~Full
    /\ LET rest == Past(text, BlanksEnd)
           kind == NextKind(rest, tokens)
           len == IF kind = "Unknown" \/ GroupingThrows(rest, tokens)
                  THEN Throws ELSE Parse(kind, rest)
       IN  IF len = Throws
           THEN phase' = "rejected" /\ UNCHANGED <<tokens, pos>>
           ELSE /\ tokens' = Append(tokens, [kind |-> kind, str |-> SubSeq(rest, 1, len),
                                             at |-> BlanksEnd])
                /\ pos' = BlanksEnd + len
                /\ UNCHANGED phase
    /\ UNCHANGED <<written, open, spaced, text, top, args>>

\* The text or the array is used up. The array needs room for EndDelimiter.
EndTokens ==
    /\ phase = "tokenize" /\ (BlanksEnd = Len(text) \/ Full)
    /\ phase' = IF Full THEN "rejected" ELSE "split"
    /\ UNCHANGED <<written, open, spaced, text, top, tokens, pos, args>>

\* Mutant of Parts: the operator stays on the left.
PartsWithOperator(at) == <<SubSeq(tokens, 1, at), Past(tokens, at)>>

\* subseq on both sides of a token.
Parts(at) == <<SubSeq(tokens, 1, at - 1), Past(tokens, at)>>

\* decomposed_to_op: the tokens before and after the first one spelled like
\* the operator. subseq asserts that neither part is empty.
Split ==
    /\ phase = "split"
    /\ LET at == SelectInSeq(tokens, LAMBDA t : t.str = written[top].str)
       IN  \/ /\ top = 0
              /\ args' = <<tokens>> /\ phase' = "reported"
           \/ /\ top # 0 /\ at \in 2 .. Len(tokens) - 1
              /\ args' = Parts(at)
              /\ phase' = "reported"
           \/ /\ top # 0 /\ at \notin 2 .. Len(tokens) - 1
              /\ phase' = "aborted" /\ UNCHANGED args
    /\ UNCHANGED <<written, open, spaced, text, top, tokens, pos>>

\* Mutant of Shown: any literal makes an operand one.
ShownNoLiteral == {i \in DOMAIN args : \A j \in DOMAIN args[i] : args[i][j].kind = "Identifier"}

\* The operands a report lists under "Where": those that are not literals.
Shown == {i \in DOMAIN args : \E j \in DOMAIN args[i] : args[i][j].kind = "Identifier"}

Writing == WriteOperand \/ WritePrefix \/ WriteInfix
           \/ OpenGroup \/ OpenCall \/ OpenTemplate \/ Close
Next == Writing \/ Require \/ Token \/ EndTokens \/ Split
Spec == Init /\ [][Next]_vars

-----------------------------------------------------------------------------
(* Properties.                                                               *)

End(part) == part.at + Len(part.str)

\* Whatever the heuristics for brackets and operators decide, every literal
\* and every identifier of the condition is one token of its own kind: no
\* operand is split, merged with its neighbour or taken for another kind.
OperandsWhole ==
    \A i \in DOMAIN written :
        written[i].class = "operand" /\ End(written[i]) <= pos =>
            \E j \in DOMAIN tokens :
                /\ tokens[j].kind = written[i].kind /\ tokens[j].str = written[i].str
                /\ tokens[j].at = written[i].at

\* A last operand that is spelled like the prefix of a string literal.
EndsInPrefix == Last(written).str \in StrlikePrefixes

\* A hexadecimal float with a fraction.
HasFraction ==
    \E i \in DOMAIN written : written[i].kind = "FloatHexLiteral" /\ Fraction(written[i].str)

\* A condition the compiler accepts is refused only for as many tokens as the
\* array holds, for a hexadecimal float with a fraction, or for a last operand
\* that is spelled like the prefix of a string literal.
RejectedOnly ==
    phase = "rejected" => Len(tokens) = MaxNumTokens \/ EndsInPrefix \/ HasFraction

\* The last two are refused whatever stands around them, though the source's own
\* grammar has them (expression_inspection.hpp:155-158 and :170): no report is
\* ever made of 0x1.8p1 (a fraction is read only behind a second 0x), or of a
\* condition that ends in the name u (without a quote behind it, the rest of the
\* text counts as a string's prefix).
RejectedAlways == phase \in {"split", "reported", "aborted"} => ~HasFraction /\ ~EndsInPrefix

\* The tokenizer took a less-than, or the first character of <= or <=>, for
\* the start of template arguments.
TemplateMistaken ==
    \E i \in DOMAIN written, j \in DOMAIN tokens :
        /\ written[i].class = "infix" /\ written[i].str[1] = "<"
        /\ tokens[j].at = written[i].at /\ tokens[j].kind = "Grouping"

\* The two parts are what the compiler evaluates on the two sides, unless
\* some token before the comparison is spelled like it or a bracket was
\* mistaken.
SplitAtComparison ==
    phase = "reported" /\ top # 0 =>
        \/ TemplateMistaken
        \/ \E j \in DOMAIN tokens :
              tokens[j].at < written[top].at /\ tokens[j].str = written[top].str
        \/ /\ Len(args) = 2
           /\ End(Last(args[1])) <= written[top].at
           /\ args[2][1].at >= End(written[top])

\* The grader is aborted by a condition's text only if the tokenizer took an
\* earlier less-than for the start of template arguments.
AbortedOnly == phase = "aborted" => TemplateMistaken

\* Every identifier the author wrote is in an operand listed there.
WhereComplete ==
    phase = "reported" =>
        \A i \in DOMAIN written :
            written[i].class = "operand" /\ written[i].kind = "Identifier" =>
                \E a \in Shown :
                    args[a][1].at <= written[i].at /\ End(written[i]) <= End(Last(args[a]))

-----------------------------------------------------------------------------
(* The inductive invariant behind the properties: where the condition stands *)
(* in the text, and how far the tokenizer is in it.                          *)

\* The characters of texts. All are strings, which the provers do not know of literals.
Character ==
  STRING \cup Word \cup Blank
    \cup {"+", "-", "*", "/", "%", "<", ">", "=", "!", "&", "|", "^", ":", ",", ".", "?", "~",
          "(", ")", "[", "]", "{", "}", "\"", "'", "\\"}

Space == " "

\* What the tokenizer may leave of an operator whose first characters it took for brackets.
Residues == {<<"=">>, <<"=", ">">>, <<">">>, <<">", "=">>}

\* The types of lexemes and tokens.
KindSet == {Kinds[i] : i \in 1..14}
Lexeme == [class : {"operand", "prefix", "infix", "open", "close"}, kind : KindSet,
           str : Seq(Character) \ {<<>>}, at : Nat]
LexedToken == [kind : KindSet, str : Seq(Character) \ {<<>>}, at : Nat]

\* What the author may have written as lexeme i.
Proper(w) ==
  /\ w.class = "operand" => \E o \in Operands : w.kind = o.kind /\ w.str = o.str
  /\ w.class = "prefix" => w.str \in Unaries
  /\ w.class = "infix" => w.str \in Infixes
  /\ w.class = "open" => w.str \in {<<"(">>, <<"<">>}
  /\ w.class = "close" => w.str \in {<<")">>, <<">">>}

\* A less-than the author means as the start of template arguments.
IsOpenTemplate(i) == written[i].class = "open" /\ written[i].str = <<"<">>

\* The types of the variables; the decomposition is at a comparison.
Types ==
  /\ written \in Seq(Lexeme) /\ open \in Seq({"group", "call", "template"})
  /\ text \in Seq(Character) /\ pos \in Nat /\ tokens \in Seq(LexedToken)
  /\ phase \in {"write", "tokenize", "split", "rejected", "reported", "aborted"}
  /\ top \in 0..Len(written)
  /\ \A i \in 1..Len(written) : Proper(written[i])
  /\ top # 0 => written[top].class = "infix" /\ written[top].str \in Comparisons

\* Where the lexemes stand in the text.
Placed ==
  /\ \A i \in 1..Len(written) :
        /\ End(written[i]) <= Len(text)
        /\ \A k \in 1..Len(written[i].str) : text[written[i].at + k] = written[i].str[k]
        /\ i = 1 => written[i].at = 0
        /\ i = Len(written) => End(written[i]) = Len(text)
  /\ \A i, j \in 1..Len(written) : i < j => End(written[i]) <= written[j].at
  /\ \A i \in 1..Len(written) - 1 :
        \/ written[i + 1].at = End(written[i]) + 1 /\ text[End(written[i]) + 1] = Space
        \/ written[i + 1].at = End(written[i]) /\ ~Glue(written[i].str, written[i + 1].str)
  /\ written = <<>> => text = <<>>

\* Which lexeme may stand after which.
Neighbours(u, v) ==
  /\ u.class = "operand" =>
        /\ v.class \in {"infix", "open", "close"}
        /\ v.class = "infix" /\ v.str \in Members => u.kind = "Identifier"
  /\ u.class = "infix" =>
        /\ v.class \in {"operand", "prefix"} \/ (v.class = "open" /\ v.str = <<"(">>)
        /\ u.str \in Members => v.class = "operand" /\ v.kind = "Identifier"
Adjacent ==
  /\ \A i \in 1..Len(written) - 1 : Neighbours(written[i], written[i + 1])
  /\ written # <<>> => /\ written[1].class \in {"operand", "prefix", "open"}
                       /\ written[1].class = "open" => written[1].str = <<"(">>
  /\ phase # "write" => written # <<>> /\ Class \in {"operand", "close"}

\* Template arguments are one operand, and the condition ends with none open.
Templates ==
  /\ \A i \in 1..Len(written) : IsOpenTemplate(i) =>
        /\ i + 1 <= Len(written) => written[i + 1].class = "operand"
        /\ i + 2 <= Len(written) => written[i + 2].class = "close" /\ written[i + 2].str = <<">">>
        /\ i + 2 > Len(written) => InTemplate
  /\ InTemplate => \E i \in 1..Len(written) : IsOpenTemplate(i) /\ i + 2 > Len(written)
  /\ \A k \in 1..Len(open) - 1 : open[k] # "template"

\* The round brackets among the first n lexemes, and those not yet closed.
Opened(n) == {i \in 1..n : written[i].class = "open" /\ written[i].str = <<"(">>}
Closed(n) == {i \in 1..n : written[i].class = "close" /\ written[i].str = <<")">>}
Pending == {k \in 1..Len(open) : open[k] # "template"}

\* Round brackets are balanced, and none closes before it opens.
Balance ==
  /\ Cardinality(Opened(Len(written))) = Cardinality(Closed(Len(written))) + Cardinality(Pending)
  /\ \A i \in 1..Len(written) :
        written[i].class = "close" /\ written[i].str = <<")">> =>
            Cardinality(Closed(i - 1)) < Cardinality(Opened(i - 1))

\* How far the tokenizer is: in or at the end of lexeme n.
Covered(n) ==
  /\ n = 0 => pos = 0 /\ tokens = <<>>
  /\ n > 0 => /\ written[n].at < pos /\ pos <= End(written[n])
              /\ pos < End(written[n]) =>
                    /\ written[n].class = "infix"
                    /\ Past(written[n].str, pos - written[n].at) \in Residues
              /\ ~TemplateMistaken => pos = End(written[n])

\* Lexeme i has a token of its own: at its place, with its spelling, and an operand
\* with its kind.
Own(i) == \E j \in 1..Len(tokens) :
  /\ tokens[j].str = written[i].str /\ tokens[j].at = written[i].at
  /\ written[i].class = "operand" => tokens[j].kind = written[i].kind

\* Every operand read has its own token, and without a mistake every lexeme.
Owned(n) ==
  \A i \in 1..n : ~TemplateMistaken \/ written[i].class = "operand" => Own(i)

\* The tokens stand one behind the other in what was read.
Ordered ==
  /\ \A j \in 1..Len(tokens) : End(tokens[j]) <= pos
  /\ \A j, k \in 1..Len(tokens) : j < k => End(tokens[j]) <= tokens[k].at

\* The tokens of round brackets are those of the first n lexemes, and no more groups or
\* calls are closed than were opened.
Brackets(n) ==
  /\ Count(tokens, "Operator", "(") + Count(tokens, "Grouping", "(") = Cardinality(Opened(n))
  /\ Count(tokens, "Operator", ")") + Count(tokens, "Grouping", ")") = Cardinality(Closed(n))
  /\ Count(tokens, "Operator", ")") <= Count(tokens, "Operator", "(")
  /\ Count(tokens, "Grouping", ")") > 0 => Count(tokens, "Grouping", "(") > 0

\* Without a mistake only the start of template arguments the author has written is open.
Angles(n) ==
  ~TemplateMistaken =>
     \/ Count(tokens, "Grouping", "<") = Count(tokens, "Grouping", ">")
     \/ /\ Count(tokens, "Grouping", "<") = Count(tokens, "Grouping", ">") + 1
        /\ \E i \in {n - 1, n} : i >= 1 /\ IsOpenTemplate(i)

\* The tokenizer after lexeme n.
Stage(n) == Covered(n) /\ Owned(n) /\ Brackets(n) /\ Angles(n)
Lexing == Ordered /\ \E n \in 0..Len(written) : Stage(n)

\* The first token spelled like the comparison the compiler decomposes at.
Like == SelectInSeq(tokens, LAMBDA t : t.str = written[top].str)

\* What the phases after the tokenizer say.
Outcome ==
  /\ phase \in {"split", "reported", "aborted"} => pos = Len(text)
  /\ phase = "reported" =>
        \/ top = 0 /\ args = <<tokens>>
        \/ top # 0 /\ Like \in 2..Len(tokens) - 1 /\ args = Parts(Like)
  /\ phase = "aborted" => top # 0 /\ Like \notin 2..Len(tokens) - 1
  /\ phase = "rejected" => RejectedOnly

\* The condition as the author writes it.
Shape == Types /\ Placed /\ Adjacent /\ Templates /\ Balance

\* The inductive invariant.
TokenDiscipline == Shape /\ Lexing /\ Outcome /\ (phase = "write" => pos = 0 /\ tokens = <<>>)
=============================================================================
