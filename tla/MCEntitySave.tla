--------------------------- MODULE MCEntitySave ---------------------------
(***************************************************************************)
(* Instances of EntitySave for TLC.                                        *)
(***************************************************************************)
EXTENDS EntitySave

\* The processes are interchangeable, and so are the marks and the new files.
Perms == Permutations(Servers) \union Permutations(Marks) \union Permutations(NewFiles)
=============================================================================
