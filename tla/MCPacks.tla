------------------------------- MODULE MCPacks -------------------------------
(***************************************************************************)
(* Packs with three releases: the second adopts a type and a relation a    *)
(* project may already have, the third is a major one.  The project's      *)
(* groups can include each other, and its names can be the core's.         *)
(***************************************************************************)
EXTENDS Packs

Rel(name, domain, range, inverse, symmetric, role) ==
    [name |-> name, domain |-> domain, range |-> range, inverse |-> inverse,
     symmetric |-> symmetric, role |-> role]
Group(name, includes) == [name |-> name, includes |-> includes]

CoreV1 ==
    [source |-> "core", parses |-> TRUE, version |-> <<0, 1, 0>>, pin |-> NoVersion,
     types |-> <<"character", "faction">>,
     groups |-> <<Group("agent", <<"character", "faction">>), Group("any", <<"*">>)>>,
     roles |-> <<"membership">>,
     relations |-> <<Rel("member_of", <<"agent">>, <<"faction">>, "has_member", FALSE, "membership"),
                     Rel("linked", <<"any">>, <<"any">>, "", TRUE, "")>>,
     eras |-> <<>>, acts |-> <<>>]
CoreV2 == [CoreV1 EXCEPT
    !.version = <<0, 2, 0>>, !.types = Append(@, "place"),
    !.relations = Append(@, Rel("rules", <<"agent">>, <<"place">>, "ruled_by", FALSE, ""))]
MCReleases == <<CoreV1, CoreV2, [CoreV2 EXCEPT !.version = <<1, 0, 0>>]>>

MCTypes == {"language", "place", "Agent", "statement"}
MCGroups == {Group("kin", <<"agent", "folk">>), Group("folk", <<"kin", "character">>),
             Group("folk", <<"language">>), Group("all", <<"folk", "*">>)}
MCRels == {Rel("speaks", <<"kin">>, <<"any">>, "", FALSE, ""),
           Rel("rules", <<"character">>, <<"all">>, "", FALSE, "membership"),
           Rel("heads", <<"agent">>, <<"faction">>, "member_of", FALSE, ""),
           Rel("friend", <<"agent">>, <<"faction">>, "", TRUE, "")}
MCFolded == [n \in {"character", "faction", "agent", "any", "language", "place", "Agent",
                    "statement", "kin", "folk", "all", "member_of", "has_member", "linked",
                    "rules", "ruled_by", "speaks", "heads", "friend", "membership",
                    "kinship", "act1", "act2"} |-> IF n = "Agent" THEN "agent" ELSE n]
MCPins == {<<0, 1, 0>>, <<0, 2, 0>>, NoVersion}
=============================================================================
