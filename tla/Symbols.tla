------------------------------ MODULE Symbols ------------------------------
(***************************************************************************)
(* The symbols of a program: ElfReader lists what the sections of its file *)
(* hold, SymbolTable keeps some of it and answers lookups.                 *)
(*                                                                         *)
(* A section is [type, entries]; an entry is [name, value, bind], as ELFIO *)
(* reads it.  Whether a symbol is defined in its file is not recorded: an  *)
(* undefined one has the value 0.                                          *)
(***************************************************************************)
EXTENDS Integers, Sequences, FiniteSets, SequencesExt

Unnamed == ""

\* ElfReader::get_symbols
Kind(section) == IF section.type = "SHT_SYMTAB" THEN "Static" ELSE "Dynamic"
GetSymbols(sections) ==
  FlattenSeq([i \in DOMAIN sections |->
    IF sections[i].type = "other" THEN <<>>
    ELSE [k \in DOMAIN sections[i].entries |->
            [name |-> sections[i].entries[k].name, kind |-> Kind(sections[i]),
             address |-> sections[i].entries[k].value, binding |-> sections[i].entries[k].bind]]])

\* SymbolTable::SymbolTable, which requires that something is left
SymbolTable(symbols) ==
  SelectSeq(symbols, LAMBDA sym : sym.kind = "Static" /\ sym.name # Unnamed)

\* SymbolTable::find: the first of that name.  {} is nullopt.
Find(table, name) ==
  LET named == {i \in DOMAIN table : table[i].name = name}
  IN  {table[i] : i \in {i \in named : \A j \in named : i <= j}}
=============================================================================
