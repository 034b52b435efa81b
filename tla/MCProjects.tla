------------------------------ MODULE MCProjects ------------------------------
(* A small instance of Projects: a plan with one file of each kind, in the *)
(* order the paths sort in.                                                *)
EXTENDS Projects, TLC

CONSTANTS p, q

MCProcs == {p, q}
Symmetry == Permutations(MCProcs)

Entry(name, sub, part, file) ==
    [name |-> name, sub |-> sub, part |-> part, file |-> file]

MCOrder ==
    <<Entry("gitattributes", "", "git", TRUE),
      Entry("workflow", ".github", "ci", TRUE),
      Entry("lorekeep-version", "", "base", TRUE),
      Entry("pack.yaml", "schema", "base", TRUE),
      Entry("world", "world", "base", FALSE),
      Entry("gitkeep", "world", "git", TRUE)>>

MCShort ==
    <<Entry("pack.yaml", "schema", "base", TRUE),
      Entry("gitkeep", "world", "git", TRUE),
      Entry("world", "world", "base", FALSE)>>
=============================================================================
