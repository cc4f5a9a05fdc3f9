---------------------------- MODULE MCInspection ----------------------------
EXTENDS Inspection

Sym(name, value, bind) == [name |-> name, value |-> value, bind |-> bind]
Code == <<Sym("", 0, "Local"), Sym("x", 4, "Local"), Sym("f", 8, "Local"), Sym("f", 6, "Global")>>
Undefined == <<Sym("f", 0, "Global"), Sym("f", 8, "Weak")>>

MCSectionLists ==
  {<<[type |-> "other", entries |-> <<>>], [type |-> "SHT_DYNSYM", entries |-> Undefined],
     [type |-> "SHT_SYMTAB", entries |-> Code]>>,
   <<[type |-> "SHT_SYMTAB", entries |-> Undefined]>>,
   <<[type |-> "SHT_DYNSYM", entries |-> Code]>>}
MCTouched == {<<"r12", 64>>, <<"r15", 16>>, <<"x29", 64>>, <<"q8", 128>>, <<"q16", 32>>}
=============================================================================
