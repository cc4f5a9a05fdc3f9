----------------------------- MODULE MCStartup ------------------------------
EXTENDS Startup

Lab == <<"lab", ".", "out">>
Dotted == <<"a", ".", "b", ".", "out">>

MCRegistrations ==
  {[name |-> <<"L">>, exec |-> Lab], [name |-> <<"L">>, exec |-> Dotted], [name |-> <<"H">>, exec |-> Lab]}

Arg(opt, vals) == {[opt |-> opt, val |-> val] : val \in vals}

MCArguments ==
  Arg("assignment", {<<"L">>, <<"H">>, <<>>}) \cup Arg("--file", {Lab}) \cup
  Arg("-q", {<<>>}) \cup Arg("--stop", {<<"first">>, <<"first-error">>}) \cup
  Arg("--file-matcher", {<<"broken_regex">>}) \cup Arg("--database", {<<"names">>}) \cup
  Arg("--search-path", {<<"missing">>})

File(name, time, good) == [kind |-> "file", name |-> name, time |-> time, elf |-> good, x |-> good]
Sent(who, exec, time) == File(Submission(who, exec), time, TRUE)

MCNodes ==
  { [kind |-> "dir", name |-> <<>>, time |-> 0, elf |-> FALSE, x |-> TRUE],
    File(Lab, 1, TRUE), File(Lab, 1, FALSE),
    Sent(<<"b", "a">>, Lab, 1), Sent(<<"b", "a">>, Lab, 2), Sent(<<"c", "a">>, Lab, 1),
    Sent(<<"b", "a", "_">>, Lab, 1), Sent(<<"b", ".">>, Lab, 1),
    Sent(<<"b", "a">>, <<"a", "_", "b", ".", "out">>, 2) }

MCLines ==
  { << <<"B">>, <<"a">> >>, << <<"b", "SP", "a">>, <<"CR">> >>, << <<"c">>, <<"A">> >>,
    << <<"b">>, <<".">> >>, << <<"b">>, <<"(", "a">> >>, << <<"a">> >>, << <<"CR">> >>,
    << <<"a">>, <<"b">>, <<"c">> >> }

----------------------------------------------------------------------------
(* As much of std::regex as these names and patterns need: characters,     *)
(* dots, groups, and + or * after a single character.                      *)

Word == Letters \cup {"_", Ids}
OneCharacter == Letters \cup {"_", ".", "(", ")", "+", "*"}

Matches(token, c) ==
  CASE token = "." -> c \in OneCharacter
    [] token = "\\." -> c = "."
    [] token = "\\w+" -> c \in Word
    [] token = "_\\d+_\\d+_" -> c = Ids
    [] OTHER -> c = token

\* The numbers of times the item at k may be there, of those up to n.
Times(expr, k, n) ==
  LET repeated == IF k < Len(expr) THEN expr[k + 1] ELSE ""
  IN CASE expr[k] = "\\w+" \/ repeated = "+" -> 1..n
       [] repeated = "*" -> 0..n
       [] OTHER -> {1}

\* "$$" of a format is one "$".
MCFormat(value) ==
  At(value, {i \in DOMAIN value : ~(i > 1 /\ value[i] = "$" /\ value[i - 1] = "$")})

Unclosed(expr, k) ==
  Cardinality({i \in 1..k : expr[i] = "("}) - Cardinality({i \in 1..k : expr[i] = ")"})
MCValid(expr) ==
  /\ \A k \in DOMAIN expr : Unclosed(expr, k) >= 0
  /\ Unclosed(expr, Len(expr)) = 0
  /\ \A k \in DOMAIN expr : expr[k] \in {"+", "*"} => k > 1 /\ expr[k - 1] \notin {"(", "+", "*"}

\* How much of the name the first k tokens may take.
MCMatch(expr, name) ==
  LET taken[k \in 0..Len(expr)] ==
        IF k = 0 THEN {0}
        ELSE LET before == taken[k - 1]
             IN  IF expr[k] \in {"(", ")", "+", "*"} THEN before
                 ELSE {j \in 0..Len(name) : \E i \in before :
                         /\ j - i \in Times(expr, k, Len(name))
                         /\ \A c \in (i + 1)..j : Matches(expr[k], name[c])}
  IN Len(name) \in taken[Len(expr)]
=============================================================================
