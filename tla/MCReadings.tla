----------------------------- MODULE MCReadings -----------------------------
(***************************************************************************)
(* An instance of Readings for TLC: one decision; Ann, who is in a guild   *)
(* and an order that disagree, in one of them with a priority that depends *)
(* on the decision; Ben; and one statement about Ben and the guild.        *)
(***************************************************************************)
EXTENDS Readings, TLC

CONSTANTS fork, ann, ben, guild, order, stmt, yes, no

Cond(o) == [decision |-> fork, outcome |-> o]
MCValids == {<<>>, <<Cond(yes)>>, <<Cond(no)>>}

Rel(sym, inv, role, dom, ran) ==
    [symmetric |-> sym, inverse |-> inv, role |-> role, domain |-> dom, range |-> ran]
MCRelations ==
    "member_of" :> Rel(FALSE, "has_member", "membership", {"character", "faction"}, {"faction"}) @@
    "knows" :> Rel(TRUE, "", "identity", {"character"}, {"character"}) @@
    "mentions" :> Rel(FALSE, "", "soft_link", {"character", "faction"}, {"character", "faction", "decision"})

File(t, edges, beliefs, asserts) ==
    [type |-> t, status |-> "canon", outcomes |-> IF t = "decision" THEN {yes, no} ELSE {},
     valid |-> <<>>, edges |-> edges, beliefs |-> beliefs, asserts |-> asserts]
To(r, t, p, v) == [relation |-> r, target |-> t, priority |-> p, valid |-> v]
Claims(v, o, cs) == [statement |-> stmt, value |-> v, other |-> o, valid |-> cs]

MCWorld ==
    [entity |->
        fork :> File("decision", <<>>, <<>>, <<>>) @@
        ann :> File("character",
                      <<To("member_of", guild, 1, <<Cond(yes)>>), To("member_of", order, 2, <<>>),
                        To("member_of", guild, 3, <<Cond(no)>>)>>,
                      <<>>, <<Claims("true", ben, <<>>)>>) @@
        ben :> File("character", <<To("knows", ann, 0, <<>>)>>,
                      <<Claims("true", ann, <<>>), Claims("false", NoId, <<Cond(yes)>>)>>, <<>>) @@
        guild :> File("faction", <<>>, <<Claims("true", NoId, <<>>)>>, <<>>) @@
        order :> File("faction", <<To("mentions", fork, 0, <<>>)>>, <<Claims("false", ben, <<>>)>>, <<>>),
     statement |->
        stmt :> [subject |-> ben, relation |-> "member_of", object |-> guild,
                 truth |-> "true", common |-> FALSE, status |-> "canon", valid |-> <<>>]]
MCWorlds == {MCWorld}

\* A project with a relation of its own by which characters are members of
\* places: Ann of one that believes what it does only in one branch.
MCOwnRelations ==
    MCRelations @@ "serves" :> Rel(FALSE, "", "membership", {"character"}, {"place"})
MCOwnWorld ==
    [MCWorld EXCEPT
        !.entity[ann].edges = <<To("serves", order, 0, <<>>)>>,
        !.entity[order] = File("place", <<>>, <<Claims("true", NoId, <<Cond(yes)>>)>>, <<>>)]
MCOwnWorlds == {MCOwnWorld}
=============================================================================
