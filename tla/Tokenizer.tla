------------------------------ MODULE Tokenizer ------------------------------
(* The lexer REQUIRE applies to the text of its condition                    *)
(* (api/expression_inspection.hpp). A text is a sequence of one-character    *)
(* strings. A kind has a matcher, which looks at the rest of the text and,   *)
(* for brackets and operators, at the tokens before it, and a parser, which  *)
(* here returns the length of the token, or Throws for a ParsingError.       *)
EXTENDS Integers, Sequences, FiniteSets, SequencesExt

Digits == {"0", "1", "2", "3", "4", "5", "6", "7", "8", "9"}
HexDigits == Digits \cup {"a", "b", "c", "d", "e", "f", "A", "B", "C", "D", "E", "F"}
Letters == {"a", "b", "c", "d", "e", "f", "g", "h", "i", "j", "k", "l", "m",
            "n", "o", "p", "q", "r", "s", "t", "u", "v", "w", "x", "y", "z",
            "A", "B", "C", "D", "E", "F", "G", "H", "I", "J", "K", "L", "M",
            "N", "O", "P", "Q", "R", "S", "T", "U", "V", "W", "X", "Y", "Z"}
Word == Letters \cup Digits \cup {"_"}
DigitOrSep == Digits \cup {"'"}
XDigitOrSep == HexDigits \cup {"'"}
Blank == {" ", "\t"}

Throws == -1
\* std::string_view::npos: beyond every position.
Npos == 100000

-----------------------------------------------------------------------------
(* class Stream and the string_view utilities.                               *)

Past(s, n) == SubSeq(s, n + 1, Len(s))

\* peek_while: how many characters in C the text starts with.
Span(s, C) ==
    LET stop == SelectInSeq(s, LAMBDA c : c \notin C)
    IN  IF stop = 0 THEN Len(s) ELSE stop - 1

\* Where the text has a t.
Occurrences(s, t) == {i \in 1 .. Len(s) - Len(t) + 1 : SubSeq(s, i, i + Len(t) - 1) = t}

\* The position of the first t in the text.
Find(s, t) == IF Occurrences(s, t) = {} THEN Npos ELSE Min(Occurrences(s, t)) - 1

\* peek_until: the text before the first t, all of it if there is none.
Before(s, t) ==
    IF Occurrences(s, t) = {} THEN s ELSE SubSeq(s, 1, Min(Occurrences(s, t)) - 1)

\* starts_with a character of C at position n.
HasAt(s, n, C) == n < Len(s) /\ s[n + 1] \in C

\* peek_through(is_ident_like()).
IdentSpan(s) == IF HasAt(s, 0, Digits) THEN 0 ELSE Span(s, Word)
Ident(s) == SubSeq(s, 1, IdentSpan(s))

-----------------------------------------------------------------------------
(* Strings, characters and truth values.                                     *)

StrlikePrefixes == {<<"L">>, <<"u">>, <<"U">>, <<"u", "8">>, <<"U", "8">>}

\* Mutant of MatchesQuoted: a prefix counts only with its quote behind it.
MatchesQuotedThere(s, opening) ==
    LET prefix == Before(s, opening)
    IN prefix # s /\ (prefix = <<>> \/ prefix \in StrlikePrefixes)

MatchesQuoted(s, opening) ==
    LET prefix == Before(s, opening) IN prefix = <<>> \/ prefix \in StrlikePrefixes

MatchesStringLiteral(s) == MatchesQuoted(s, <<"\"">>)
MatchesRawStringLiteral(s) == MatchesQuoted(s, <<"R", "\"">>)
MatchesCharLiteral(s) == MatchesQuoted(s, <<"'">>)
MatchesBoolLiteral(s) == Ident(s) \in {<<"t", "r", "u", "e">>, <<"f", "a", "l", "s", "e">>}

\* How many backslashes stand before position i, no further back than start.
Backslashes(s, start, i) ==
    Max({n \in 0 .. i - start - 1 : \A k \in i - n .. i - 1 : s[k] = "\\"})

\* Where a quote stands after start that no backslash escapes.
QuoteEnds(s, start, quote) ==
    {i \in start + 1 .. Len(s) : s[i] = quote /\ Backslashes(s, start, i) % 2 = 0}

\* Through the first quote and the first that could end the literal. Without
\* one, the consume(1) that follows the search throws.
ParseQuoted(s, quote) ==
    LET ends == QuoteEnds(s, Len(Before(s, <<quote>>)) + 1, quote)
    IN  IF ends = {} THEN Throws ELSE Min(ends)

\* R"d(...)d": where the text after the first quote has a ')' that d and a
\* quote follow.
RawDelimiter(s) == Before(Past(s, Len(Before(s, <<"\"">>)) + 1), <<"(">>) \o <<"\"">>
RawEnds(s) ==
    {i \in Len(Before(s, <<"\"">>)) + 2 .. Len(s) :
        s[i] = ")" /\ IsPrefix(RawDelimiter(s), Past(s, i))}

\* A raw string that does not end: through the last ')' after the first '(',
\* and through d behind it.
RawUnended(s) ==
    LET d == Front(RawDelimiter(s))
        inside == Len(Before(s, <<"\"">>)) + 1 + Len(d)
        parens == {i \in inside + 1 .. Len(s) : s[i] = ")"}
    IN  IF parens = {} THEN inside
        ELSE Max(parens) + IF IsPrefix(d, Past(s, Max(parens))) THEN Len(d) ELSE 0

ParseRaw(s) ==
    IF RawEnds(s) = {} THEN RawUnended(s) ELSE Min(RawEnds(s)) + Len(RawDelimiter(s))

-----------------------------------------------------------------------------
(* Numbers.                                                                  *)

HexPrefix(s) == HasAt(s, 0, {"0"}) /\ HasAt(s, 1, {"x", "X"})
DotHexPrefix(s) == HasAt(s, 0, {"."}) /\ HexPrefix(Past(s, 1))

MatchesIntBinLiteral(s) ==
    HasAt(s, 0, {"0"}) /\ HasAt(s, 1, {"b", "B"}) /\ HasAt(s, 2, Digits)

MatchesIntHexLiteral(s) ==
    /\ HexPrefix(s)
    /\ HasAt(s, 2, HexDigits)
    /\ ~HasAt(s, 2 + Span(Past(s, 2), XDigitOrSep), {"p", "P", "."})

\* What may not follow the digits of a number that is an integer.
EndsInteger(s) == ~HasAt(s, Span(s, DigitOrSep), {"x", "X", "e", "E", "."})

MatchesIntOctLiteral(s) == HasAt(s, 0, {"0"}) /\ EndsInteger(s)

MatchesIntDecLiteral(s) ==
    /\ HasAt(s, 0, Digits)
    /\ ~MatchesIntBinLiteral(s) /\ ~MatchesIntOctLiteral(s) /\ ~MatchesIntHexLiteral(s)
    /\ EndsInteger(s)

MatchesFloatHexLiteral(s) == IF HexPrefix(s) THEN ~MatchesIntHexLiteral(s) ELSE DotHexPrefix(s)

MatchesFloatLiteral(s) ==
    /\ ~MatchesFloatHexLiteral(s)
    /\ \/ HasAt(s, 0, {"."}) /\ HasAt(s, 1, Digits)
       \/ /\ HasAt(s, 0, Digits)
          /\ ~MatchesIntBinLiteral(s) /\ ~MatchesIntOctLiteral(s)
          /\ ~MatchesIntDecLiteral(s) /\ ~MatchesIntHexLiteral(s)

\* consume_int_suffix: the longest of u, l, ll, ul, ull, in either case.
IntSuffix(s) ==
    LET u == IF HasAt(s, 0, {"u", "U"}) THEN 1 ELSE 0
    IN  u + Min({2, Span(Past(s, u), {"l", "L"})})

ParseInt(s, prefix, C) ==
    LET n == prefix + Span(Past(s, prefix), C)
    IN  n + IntSuffix(Past(s, n))

\* Mutant of ParseExponent: signs are taken among the digits.
ParseExponentSigns(s, n) == n + Span(Past(s, n), DigitOrSep \cup {"+", "-"})

\* The sign and the digits of an exponent from position n on.
ParseExponent(s, n) ==
    LET signed == n + (IF HasAt(s, n, {"+", "-"}) THEN 1 ELSE 0)
    IN  signed + Span(Past(s, signed), DigitOrSep)

\* A suffix f or l at position n that is not the start of a longer word.
FloatSuffix(s, n) ==
    IF IdentSpan(Past(s, n)) = 1 /\ HasAt(s, n, {"f", "F", "l", "L"}) THEN n + 1 ELSE n

ParseFloat(s) ==
    LET whole == Span(s, DigitOrSep)
        dotted == HasAt(s, whole, {"."})
        mantissa == IF dotted THEN whole + 1 + Span(Past(s, whole + 1), DigitOrSep)
                              ELSE whole
        hasExp == HasAt(s, mantissa, {"e", "E"})
    IN  IF ~dotted /\ ~hasExp THEN Throws
        ELSE FloatSuffix(s, IF hasExp THEN ParseExponent(s, mantissa + 1) ELSE mantissa)

\* The fraction needs a 0x of its own, and the exponent is required.
ParseFloatHex(s) ==
    LET prefix == IF DotHexPrefix(s) THEN 3 ELSE 2
        whole == prefix + Span(Past(s, prefix), XDigitOrSep)
        point == IF HasAt(s, whole, {"."}) THEN whole + 1 ELSE whole
        mantissa == IF HexPrefix(Past(s, point))
                    THEN point + 2 + Span(Past(s, point + 2), XDigitOrSep)
                    ELSE point
    IN  IF HasAt(s, mantissa, {"p", "P"})
        THEN FloatSuffix(s, ParseExponent(s, mantissa + 1))
        ELSE Throws

-----------------------------------------------------------------------------
(* Identifiers, brackets and operators. A token is a record of its kind, its *)
(* text and the position of its text in the source.                          *)

BinaryOperators ==
    {<<":", ":">>, <<",">>, <<".">>, <<"-", ">">>, <<".", "*">>, <<"-", ">", "*">>,
     <<"+">>, <<"-">>, <<"*">>, <<"/">>, <<"%">>, <<"<", "<">>, <<">", ">">>,
     <<"^">>, <<"|">>, <<"&">>, <<"&", "&">>, <<"|", "|">>,
     <<"=", "=">>, <<"!", "=">>, <<"<", "=", ">">>, <<"<">>, <<"<", "=">>, <<">">>, <<">", "=">>,
     <<"=">>, <<"+", "=">>, <<"-", "=">>, <<"*", "=">>, <<"/", "=">>, <<"%", "=">>,
     <<"<", "<", "=">>, <<">", ">", "=">>, <<"&", "=">>, <<"^", "=">>, <<"|", "=">>}

Keywords ==
    {<<"t", "h", "r", "o", "w">>, <<"s", "i", "z", "e", "o", "f">>,
     <<"a", "l", "i", "g", "n", "o", "f">>, <<"n", "e", "w">>,
     <<"d", "e", "l", "e", "t", "e">>,
     <<"c", "o", "n", "s", "t", "_", "c", "a", "s", "t">>,
     <<"s", "t", "a", "t", "i", "c", "_", "c", "a", "s", "t">>,
     <<"d", "y", "n", "a", "m", "i", "c", "_", "c", "a", "s", "t">>,
     <<"r", "e", "i", "n", "t", "e", "r", "p", "r", "e", "t", "_", "c", "a", "s", "t">>}
Operators ==
    Keywords \cup
    {<<"+", "+">>, <<"-", "-">>, <<"(">>, <<")">>, <<"[">>, <<"]">>, <<"+">>, <<"-">>,
     <<"~">>, <<"!">>, <<"*">>, <<"&">>, <<":", ":">>, <<"?">>, <<":">>}

MatchesIdentifier(s) ==
    IdentSpan(s) > 0 /\ Ident(s) \notin Operators /\ ~MatchesBoolLiteral(s)

Is(token, kind, c) == token.kind = kind /\ token.str = <<c>>
\* ranges::count and ranges::find; find gives the end if there is none.
Count(prevs, kind, c) == Cardinality({i \in DOMAIN prevs : Is(prevs[i], kind, c)})
FirstToken(prevs, kind, c) ==
    Min({i \in DOMAIN prevs : Is(prevs[i], kind, c)} \cup {Len(prevs) + 1})

\* A ')' closes a group if some group was opened and either all calls are
\* closed or the first group was opened after the first call.
ClosesGroup(prevs) ==
    LET group == FirstToken(prevs, "Grouping", "(")
        call == FirstToken(prevs, "Operator", "(")
    IN  /\ group <= Len(prevs)
        /\ \/ Count(prevs, "Operator", "(") = Count(prevs, "Operator", ")")
           \/ group > call

\* A '<' opens a template's arguments if a '>' follows, with no '<', '(', &&
\* or || before it, and the '<' is not itself part of a longer operator.
OpensTemplate(s) ==
    LET punct == SubSeq(s, 1, Span(s, {s[i] : i \in DOMAIN s} \ (Word \cup Blank)))
        closing == Find(s, <<">">>)
        logical == Min({Find(s, <<"&", "&">>), Find(s, <<"|", "|">>)})
    IN  /\ ~(Len(punct) > 1 /\ (punct \in BinaryOperators \/ punct \in Operators))
        /\ closing <= logical /\ closing <= Find(s, <<"(">>)
        /\ Find(Past(s, 1), <<"<">>) > closing

MatchesGrouping(s, prevs) ==
    \/ s[1] \in {"{", "}"}
    \/ s[1] = "(" /\ (prevs = <<>> \/ Last(prevs).kind # "Identifier")
    \/ s[1] = ")" /\ ClosesGroup(prevs)
    \/ s[1] = "<" /\ OpensTemplate(s)
    \/ s[1] = ">" /\ Count(prevs, "Grouping", "<") > Count(prevs, "Grouping", ">")

\* More calls closed than opened, once a group was opened.
GroupingThrows(s, prevs) ==
    /\ s[1] = ")"
    /\ FirstToken(prevs, "Grouping", "(") <= Len(prevs)
    /\ Count(prevs, "Operator", ")") > Count(prevs, "Operator", "(")

\* Mutant of Munch: the shortest.
MunchShortest(s, operators) ==
    LET here == {op \in operators : IsPrefix(op, s)}
    IN  IF here = {} THEN <<>>
        ELSE CHOOSE op \in here : \A other \in here : Len(op) <= Len(other)

\* Maximal munch: the longest of the operators the text starts with.
Munch(s, operators) ==
    LET here == {op \in operators : IsPrefix(op, s)}
    IN  IF here = {} THEN <<>>
        ELSE CHOOSE op \in here : \A other \in here : Len(other) <= Len(op)

\* An operator that could be unary is binary after anything but an operator.
MatchesBinaryOperator(s, prevs) ==
    LET op == Munch(s, BinaryOperators)
    IN  /\ ~MatchesGrouping(s, prevs)
        /\ op # <<>>
        /\ op \in Operators =>
              prevs # <<>> /\ Last(prevs).kind \notin {"Operator", "BinaryOperator"}

MatchesOperator(s, prevs) ==
    LET op == Munch(s, Operators)
    IN  /\ ~MatchesGrouping(s, prevs)
        /\ op # <<>>
        /\ op \in BinaryOperators => ~MatchesBinaryOperator(s, prevs)

-----------------------------------------------------------------------------
(* One step of parse_all: the kinds in the order parse_tokens tries them.    *)

Kinds == <<"BoolLiteral", "StringLiteral", "RawStringLiteral", "CharLiteral",
           "IntBinLiteral", "IntOctLiteral", "IntDecLiteral", "IntHexLiteral",
           "FloatLiteral", "FloatHexLiteral", "Identifier", "Grouping",
           "BinaryOperator", "Operator">>

Literals == {Kinds[i] : i \in 1 .. 10}

Matches(kind, s, prevs) ==
    CASE kind = "BoolLiteral" -> MatchesBoolLiteral(s)
      [] kind = "StringLiteral" -> MatchesStringLiteral(s)
      [] kind = "RawStringLiteral" -> MatchesRawStringLiteral(s)
      [] kind = "CharLiteral" -> MatchesCharLiteral(s)
      [] kind = "IntBinLiteral" -> MatchesIntBinLiteral(s)
      [] kind = "IntOctLiteral" -> MatchesIntOctLiteral(s)
      [] kind = "IntDecLiteral" -> MatchesIntDecLiteral(s)
      [] kind = "IntHexLiteral" -> MatchesIntHexLiteral(s)
      [] kind = "FloatLiteral" -> MatchesFloatLiteral(s)
      [] kind = "FloatHexLiteral" -> MatchesFloatHexLiteral(s)
      [] kind = "Identifier" -> MatchesIdentifier(s)
      [] kind = "Grouping" -> MatchesGrouping(s, prevs)
      [] kind = "BinaryOperator" -> MatchesBinaryOperator(s, prevs)
      [] kind = "Operator" -> MatchesOperator(s, prevs)

Parse(kind, s) ==
    CASE kind = "StringLiteral" -> ParseQuoted(s, "\"")
      [] kind = "CharLiteral" -> ParseQuoted(s, "'")
      [] kind = "RawStringLiteral" -> ParseRaw(s)
      [] kind = "IntBinLiteral" -> ParseInt(s, 2, DigitOrSep)
      [] kind = "IntOctLiteral" -> ParseInt(s, 1, DigitOrSep)
      [] kind = "IntDecLiteral" -> ParseInt(s, 0, DigitOrSep)
      [] kind = "IntHexLiteral" -> ParseInt(s, 2, XDigitOrSep)
      [] kind = "FloatLiteral" -> ParseFloat(s)
      [] kind = "FloatHexLiteral" -> ParseFloatHex(s)
      [] kind \in {"BoolLiteral", "Identifier"} -> IdentSpan(s)
      [] kind = "Grouping" -> 1
      [] kind = "BinaryOperator" -> Len(Munch(s, BinaryOperators))
      [] kind = "Operator" -> Len(Munch(s, Operators))

\* The kind of the next token, or "Unknown" if no kind matches: every further
\* round then adds an empty token, and parse_all throws at the last one.
NextKind(s, prevs) ==
    LET first == SelectInSeq(Kinds, LAMBDA kind : Matches(kind, s, prevs))
    IN  IF first = 0 THEN "Unknown" ELSE Kinds[first]
=============================================================================
