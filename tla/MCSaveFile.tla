--------------------------- MODULE MCSaveFile ---------------------------
(***************************************************************************)
(* Four ROMs whose paths have an extension in different places.  Two have     *)
(* the same save file, and the beginning of the one's is of the size of the    *)
(* other's.                                                                  *)
(***************************************************************************)
EXTENDS SaveFile

\* /a.gb and /a.gbc, /b and a.c/a: with an extension, with none, with none below a dot.
MCRoms == {<<"/", "a", ".", "gb">>, <<"/", "a", ".", "gbc">>, <<"/", "b">>,
           <<"a", ".", "c", "/", "a">>}
MCRamSize == [rom \in MCRoms |-> IF rom[Len(rom)] \in {"b", "gbc"} THEN 1 ELSE 2]

\* All paths of one to five characters that a file can have.
Characters == {"a", ".", "/", "\\"}
MCPaths == {p \in UNION {[1..n -> Characters] : n \in 1..5} : p[Len(p)] \notin Separators}
==========================================================================
