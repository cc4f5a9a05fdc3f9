---------------------------- MODULE MCRequirement ----------------------------
EXTENDS Requirement

MCPlain == [kind |-> "Identifier", str |-> <<"p">>]
MCOperands ==
    {MCPlain,
     [kind |-> "Identifier", str |-> <<"u">>],
     [kind |-> "BoolLiteral", str |-> <<"t", "r", "u", "e">>],
     [kind |-> "IntBinLiteral", str |-> <<"0", "b", "1", "u">>],
     [kind |-> "IntOctLiteral", str |-> <<"0">>],
     [kind |-> "IntDecLiteral", str |-> <<"1", "'", "0", "l">>],
     [kind |-> "IntHexLiteral", str |-> <<"0", "x", "f", "u">>],
     [kind |-> "FloatLiteral", str |-> <<".", "5">>],
     [kind |-> "FloatLiteral", str |-> <<"1", "e", "-", "1", "f">>],
     [kind |-> "FloatHexLiteral", str |-> <<"0", "x", "1", "p", "1">>],
     [kind |-> "FloatHexLiteral", str |-> <<"0", "x", "1", ".", "8", "p", "1">>],
     [kind |-> "StringLiteral", str |-> <<"\"", ">", "\"">>],
     [kind |-> "StringLiteral", str |-> <<"u", "8", "\"", "\\", "\"", "\"">>],
     [kind |-> "RawStringLiteral", str |-> <<"R", "\"", "(", ")", "a", "(", ")", "\"">>],
     [kind |-> "CharLiteral", str |-> <<"L", "'", "<", "'">>]}
MCUnaries == {<<"-">>}
MCInfixes == {<<"=", "=">>, <<"<">>, <<"<", "=">>, <<">", "=">>, <<"-">>, <<"-", ">">>, <<"&", "&">>}
=============================================================================
