----------------------------- MODULE MCProposals -----------------------------
(* A small project for Proposals: a file with two spellings on a file      *)
(* system that folds case, a file of a folder the loader skips, one behind *)
(* a link, one outside world/, and another plain one.                      *)
EXTENDS Proposals, TLC

CONSTANTS c1, c2

Path(name, file, clean, read, linked) ==
    [name |-> name, file |-> file, clean |-> clean, read |-> read, linked |-> linked]
lord == Path("lord.md", "lord.md", TRUE, TRUE, FALSE)
Lord == Path("Lord.md", "lord.md", TRUE, TRUE, FALSE)
keep == Path("keep.md", "keep.md", TRUE, TRUE, FALSE)
hidden == Path(".old/x.md", ".old/x.md", TRUE, FALSE, FALSE)
behind == Path("link/y.md", "link/y.md", TRUE, TRUE, TRUE)
outside == Path("../schema/z.md", "../schema/z.md", FALSE, TRUE, FALSE)

File(p, kind, text) == [path |-> p, kind |-> kind, text |-> text]
e1 == File(lord, "entity", "one")
e2 == File(Lord, "entity", "two")
s1 == File(keep, "statement", "three")

MCPaths == {lord, Lord, keep, hidden, behind, outside}
MCRequests ==
    {<<>>, <<e1, s1>>, <<e1, e2>>, <<File(lord, "neither", "four")>>,
     <<File(hidden, "entity", "five")>>, <<File(behind, "entity", "six")>>,
     <<File(outside, "entity", "seven")>>}
MCCalls == {c1, c2}
Symmetry == Permutations(MCCalls)
=============================================================================
