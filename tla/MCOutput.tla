------------------------------ MODULE MCOutput ------------------------------
EXTENDS Output

MCDescriptions == {<<0>>, <<0, 1>>}
=============================================================================
