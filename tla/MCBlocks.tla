------------------------------ MODULE MCBlocks ------------------------------
EXTENDS Blocks

\* The longer string gives a block two colours.
MCStrings ==
  BoundedSeq({"%#", "tick", "\\", "<", ">", "a"}, 4)
    \cup {<<"%#", "tick", "<", "fg:red", ",", "fg:#1", ">", "tick">>}

MCPlains == [kind : {"plain"}, s : {<<"tick">>, <<"%#", "\\">>}]
MCStyleLists == {<<>>, <<"bold">>, <<"fg:red", "bg:#1">>, <<"fg:red", "fg:#1">>, <<"bg:#1", "a", "bg:#1">>}
MCContents == {<<>>, <<"tick">>, <<"<", "a">>, <<"\\", "tick">>, <<">", "%#">>, <<"%#", "tick", "a">>}
MCBlockParts == [kind : {"block"}, styles : MCStyleLists, s : MCContents]

MCParts == MCPlains \cup MCBlockParts
=============================================================================
