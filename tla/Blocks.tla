------------------------------- MODULE Blocks -------------------------------
(***************************************************************************)
(* How a report shows a value: stringize::str makes a text of it, in which *)
(* %#`<style>...` marks a literal block, and the highlighter finds the     *)
(* blocks of that text and renders them.                                   *)
(*                                                                         *)
(* A text is a sequence of characters.  "%#" and a style's name count as   *)
(* one character each, since no position inside of them matters.  As in    *)
(* the code, str is what remains of the text while blocks are looked for,  *)
(* and idx the position in the whole text that str is thought to start at. *)
(* Positions are counted from 0.                                           *)
(***************************************************************************)
EXTENDS Integers, Sequences, FiniteSets, SequencesExt

CONSTANTS
  Strings,     \* strings a student's program may produce
  Parts,       \* what an author's text is made of: plain texts and blocks
  MaxParts     \* bound: parts of an author's text

Tick == "tick"
Backslash == "\\"
Opener == <<"%#", Tick>>
Npos == -1

VARIABLES
  value,      \* what is shown: a value, or the text of an author's own str
  colorize,   \* do_colorize_
  text,       \* StringizeResult::original
  str, idx,   \* find_literal_blocks' view of the rest of the text
  blocks,     \* the LiteralBlocks found
  attempt,    \* maybe_highlight: 1, or 2 after an exception
  pc,
  shown       \* the result: pieces of text with their styles
vars == <<value, colorize, text, str, idx, blocks, attempt, pc, shown>>

----------------------------------------------------------------------------
(* Texts *)

Past(s, n) == SubSeq(s, n + 1, Len(s))
StartsWith(s, t) == IsPrefix(t, s)
\* std::string_view::find
Find(s, t) ==
  LET at == {i \in 1..Len(s) - Len(t) + 1 : SubSeq(s, i, i + Len(t) - 1) = t}
  IN  IF at = {} THEN Npos ELSE Min(at) - 1
Join(parts, separator) ==
  FlattenSeq([i \in DOMAIN parts |-> IF i = 1 THEN parts[i] ELSE separator \o parts[i]])

----------------------------------------------------------------------------
(* stringize.hpp: the text of a value *)

\* fmt's {:?}
Quoted(s) ==
  <<"\"">> \o FlattenSeq([i \in DOMAIN s |-> IF s[i] \in {Backslash, "\""}
                                           THEN <<Backslash, s[i]>> ELSE <<s[i]>>])
    \o <<"\"">>

\* str_default of an Expected that holds an error
ErrorText == Opener \o <<"<", "fg:red", ">", "e", Tick>>
\* str of a type that has none
Fallback == Opener \o <<".", Tick>>

Element(e) == IF e.kind = "error" THEN ErrorText ELSE Quoted(e.s)
ElementsText(es) == Join([i \in DOMAIN es |-> Element(es[i])], <<",", " ">>)

\* A part of an author's own text, written as syntax_highlighter.hpp says.
Escaped(s) == FlattenSeq([i \in DOMAIN s |-> IF s[i] = Tick THEN <<Backslash, Tick>> ELSE <<s[i]>>])
BeginsEscaped(part) ==
  part.kind = "block" /\ part.styles = <<>> /\ part.s # <<>> /\ Head(part.s) = "<"
Written(part) ==
  IF part.kind = "plain" THEN part.s
  ELSE Opener
         \o (IF part.styles = <<>> THEN <<>>
             ELSE <<"<">> \o Join([i \in DOMAIN part.styles |-> <<part.styles[i]>>], <<",">>) \o <<">">>)
         \o (IF BeginsEscaped(part) THEN <<Backslash>> ELSE <<>>)
         \o Escaped(part.s) \o <<Tick>>

\* AsmFunctionResult::repr; str_default of a range; StrFn::pre
Text(v) ==
  CASE v.kind = "call"     -> <<"f", "(">> \o ElementsText(v.parts) \o <<")">>
    [] v.kind = "range"    -> ElementsText(v.parts)
    [] v.kind = "opaque"   -> Fallback
    [] v.kind = "authored" -> FlattenSeq([i \in DOMAIN v.parts |-> Written(v.parts[i])])

----------------------------------------------------------------------------
Elements == [kind : {"error"}] \cup [kind : {"string"}, s : Strings]
\* A string or an error by itself is a range of one element.  Two texts of an author
\* without a block between them are one text.
Values ==
  [kind : {"call"}, parts : BoundedSeq(Elements, 1)]
    \cup [kind : {"range"}, parts : [1..1 -> Elements]]
    \cup [kind : {"opaque"}, parts : {<<>>}]
    \cup [kind : {"authored"}, parts : {ps \in BoundedSeq(Parts, MaxParts) :
                                          \A i \in 2..Len(ps) : "block" \in {ps[i - 1].kind, ps[i].kind}}]

Init ==
  /\ value \in Values /\ colorize \in BOOLEAN
  /\ text = Text(value)
  /\ str = text /\ idx = 0 /\ blocks = <<>>
  /\ attempt = 1 /\ pc = "find" /\ shown = <<>>

----------------------------------------------------------------------------
(* find_literal_blocks *)

\* A character of the text is a style's name if it is one of these.
Foreground == {"fg:red", "fg:#1"}
Background == {"bg:red", "bg:#1"}
Emphasis == {"bold"}
Ansi == {"fg:red", "bg:red"}

\* parse_style_specs: the texts between commas, but not an empty one at the end.
StyleSpecs(s) ==
  LET starts == SetToSortSeq({i \in 1..Len(s) : i = 1 \/ s[i - 1] = ","}, <)
  IN  [k \in DOMAIN starts |->
         SubSeq(s, starts[k], IF k < Len(starts) THEN starts[k + 1] - 2
                              ELSE IF Last(s) = "," THEN Len(s) - 1 ELSE Len(s))]

\* spec_to_fmt_style: an unknown style is none.
Style(spec) == IF Len(spec) = 1 THEN {spec[1]} \cap (Foreground \cup Background \cup Emphasis) ELSE {}

\* What fold_left over | makes of the styles.  Two colours for one ground throw,
\* unless both are rgb.
Combined(specs) == UNION {Style(specs[i]) : i \in DOMAIN specs}
Clash(specs) ==
  \E i, j \in DOMAIN specs : i < j /\
    \E c \in Style(specs[i]), d \in Style(specs[j]) :
      /\ {c, d} \subseteq Foreground \/ {c, d} \subseteq Background
      /\ {c, d} \cap Ansi # {}

\* What follows the opening delimiter: how far str and idx move, and the styles.
\* A style spec that is empty, has a blank in it or no > is text.
StyleSpec(s) ==
  LET close == Find(s, <<">">>)
      spec == SubSeq(s, 2, close)
  IN  CASE /\ StartsWith(s, <<"<">>) /\ close # Npos /\ spec # <<>> /\ " " \notin ToSet(spec)
             -> [drop |-> close + 1, skip |-> close + 1, specs |-> StyleSpecs(spec)]
        [] StartsWith(s, <<Backslash, "<">>) -> [drop |-> 0, skip |-> 1, specs |-> <<>>]
        [] OTHER -> [drop |-> 0, skip |-> 0, specs |-> <<>>]

\* Mutant of EndTick: any backtick ends a block.
EndTickAny(s) == Find(s, <<Tick>>)

\* Mutant of EndTick: without the case of an end right at the start.
EndTickLater(s) ==
  LET at == {i \in 2..Len(s) : s[i] = Tick /\ s[i - 1] # Backslash}
  IN  IF at = {} THEN Npos ELSE Min(at) - 1

\* The first backtick that no backslash precedes.
EndTick(s) ==
  LET at == {i \in DOMAIN s : s[i] = Tick /\ (i > 1 => s[i - 1] # Backslash)}
  IN  IF at = {} THEN Npos ELSE Min(at) - 1

Block(start_delim, start, end, specs) ==
  [start_delim |-> start_delim, start |-> start, end |-> end, style_specs |-> specs]

\* One round of the loop.
FindBlock ==
  /\ pc = "find" /\ Find(str, Opener) # Npos
  /\ LET open  == Find(str, Opener)
         rest  == Past(str, open + Len(Opener))
         spec  == StyleSpec(rest)
         body  == Past(rest, spec.drop)
         start == idx + open + Len(Opener) + spec.skip
         tick  == EndTick(body)
     IN  IF tick = Npos
         THEN /\ blocks' = Append(blocks, Block(idx + open, start, Npos, spec.specs))
              /\ pc' = "render"
              /\ UNCHANGED <<str, idx>>
         ELSE /\ blocks' = Append(blocks, Block(idx + open, start, start + tick, spec.specs))
              /\ str' = Past(body, tick + 1)
              /\ idx' = start + tick + 1
              /\ UNCHANGED pc
  /\ UNCHANGED <<value, colorize, text, attempt, shown>>

NoMoreBlocks ==
  /\ pc = "find" /\ Find(str, Opener) = Npos
  /\ pc' = "render"
  /\ UNCHANGED <<value, colorize, text, str, idx, blocks, attempt, shown>>

----------------------------------------------------------------------------
(* split_non_literals, merge_literal_blocks, render_literal_block *)

\* std::string_view::substr(from, to - from), which throws if from is too large
Substr(from, to) == SubSeq(text, from + 1, IF to = Npos \/ to > Len(text) THEN Len(text) ELSE to)
Throws(from) == from > Len(text)

\* Where the text before block i begins.
From(i) == IF i = 1 THEN 0 ELSE blocks[i - 1].end + 1

\* \` becomes `
Unescaped(s) ==
  FlattenSeq([i \in DOMAIN s |-> IF s[i] = Backslash /\ i < Len(s) /\ s[i + 1] = Tick
                                 THEN <<>> ELSE <<s[i]>>])

\* The reserve of a block without an end asks for more than a string can hold.
BlockThrows(b, styled) == b.end = Npos \/ Throws(b.start) \/ (styled /\ Clash(b.style_specs))
Rendered(b, styled) ==
  [s |-> Unescaped(Substr(b.start, b.end)),
   style |-> IF styled THEN Combined(b.style_specs) ELSE {}]

Between(i) == IF i <= Len(blocks) /\ blocks[i].start_delim = From(i) THEN <<>>
              ELSE Substr(From(i), IF i <= Len(blocks) THEN blocks[i].start_delim ELSE Npos)
BetweenThrows(i) == blocks[i].start_delim # From(i) /\ Throws(From(i))

\* render_blocks and highlight: texts and blocks in turn.
RenderThrows(styled) ==
  \E i \in DOMAIN blocks : BlockThrows(blocks[i], styled) \/ BetweenThrows(i)
Pieces(styled) ==
  FlattenSeq([i \in DOMAIN blocks |->
                <<[s |-> Between(i), style |-> {}], Rendered(blocks[i], styled)>>])
    \o <<[s |-> Between(Len(blocks) + 1), style |-> {}]>>

----------------------------------------------------------------------------
(* PlainTextSerializer::maybe_highlight *)

Show(styled) ==
  IF RenderThrows(styled)
  THEN /\ IF attempt = 1 THEN attempt' = 2 /\ UNCHANGED pc
                         ELSE pc' = "thrown" /\ UNCHANGED attempt
       /\ UNCHANGED shown
  ELSE pc' = "shown" /\ shown' = Pieces(styled) /\ UNCHANGED attempt

\* With colours the first attempt is highlight, without it is render_blocks;
\* the second one, in the handler of an exception, is render_blocks.
Render ==
  /\ pc = "render"
  /\ Show(colorize)
  /\ UNCHANGED <<value, colorize, text, str, idx, blocks>>

\* highlight hands the texts between blocks to a Tokenizer, which may refuse one.
NotTokenized ==
  /\ pc = "render" /\ attempt = 1 /\ colorize
  /\ \E i \in 1..Len(blocks) + 1 : Between(i) # <<>>
  /\ attempt' = 2
  /\ UNCHANGED <<value, colorize, text, str, idx, blocks, pc, shown>>

Next == FindBlock \/ NoMoreBlocks \/ Render \/ NotTokenized
Spec == Init /\ [][Next]_vars

----------------------------------------------------------------------------
(* Properties *)

\* What is shown, without the bounds of pieces nobody sees.
Visible(pieces) ==
  FlattenSeq([i \in DOMAIN pieces |-> [k \in DOMAIN pieces[i].s |-> <<pieces[i].s[k], pieces[i].style>>]])

\* The styles an author gives to a part.
Specs(part) ==
  IF part.kind = "plain" THEN <<>> ELSE [k \in DOMAIN part.styles |-> <<part.styles[k]>>]

\* What the author of a text meant.
Meant ==
  [i \in DOMAIN value.parts |->
     [s |-> value.parts[i].s,
      style |-> IF colorize THEN Combined(Specs(value.parts[i])) ELSE {}]]
Spoiled == {i \in DOMAIN value.parts : BeginsEscaped(value.parts[i])}
\* The last piece with the backtick behind it.
WithDelimiter(pieces) == [pieces EXCEPT ![Len(pieces)].s = Append(@, Tick)]

\* A text written as syntax_highlighter.hpp:90-132 says is shown as its author meant it,
\* backticks and styles included, up to the first block that begins with an escaped <.  Of
\* such a block :117 says that the < is part of it: it is, but so is its end delimiter, as
\* the escape is counted into idx twice (syntax_highlighter.cpp:299, :326).
ShownAsMeant ==
  pc = "shown" /\ value.kind = "authored" =>
    IF Spoiled = {} THEN Visible(shown) = Visible(Meant)
    ELSE IsPrefix(Visible(WithDelimiter(SubSeq(Meant, 1, Min(Spoiled)))), Visible(shown))

\* A block begins in the text and no unescaped backtick ends it.
Unended ==
  \E i \in 1..Len(text) - 1 :
    /\ SubSeq(text, i, i + 1) = Opener
    /\ \A j \in i + 2..Len(text) : text[j] = Tick => j > i + 2 /\ text[j - 1] = Backslash

\* A report is lost only for a block with two colours for one ground, for positions that
\* two blocks with an escaped < at their beginning have moved behind the text, or for a
\* student's string in which a block begins and does not end.
LostOnly ==
  pc = "thrown" =>
    IF value.kind = "authored"
    THEN \/ colorize /\ \E i \in DOMAIN value.parts : Clash(Specs(value.parts[i]))
         \/ Cardinality(Spoiled) >= 2
    ELSE Unended \/ (colorize /\ \E i \in DOMAIN blocks : Clash(blocks[i].style_specs))

----------------------------------------------------------------------------
(* What the source says and the code does not do. *)

\* stringize.hpp:181: the text of a value "is guaranteed to be parsable by
\* highlight::highlight", whatever a student's program printed.
StrParsable == value.kind # "authored" => pc # "thrown"
=============================================================================
