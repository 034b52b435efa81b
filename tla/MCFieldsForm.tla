---------------------------- MODULE MCFieldsForm ----------------------------
(***************************************************************************)
(* Files a writer may open: bare, null fields, lists of two, a span in     *)
(* part, a spoiler and an era the project no longer has, a field of        *)
(* another type, a key no version knows, and fields of the wrong shape.    *)
(***************************************************************************)
EXTENDS FieldsForm

Entry(type) == [id |-> Str("x"), type |-> Str(type), name |-> Str("Miren"), status |-> Str("canon"),
                visibility |-> Visibility("public", "")]
Fields(f, g) == Map([k \in DOMAIN f \union DOMAIN g |-> IF k \in DOMAIN g THEN g[k] ELSE f[k]])
Page(type, g) == [tree |-> Fields(Entry(type), g), text |-> <<Blank, "Once.">>]

MCBaseFiles == {
    Page("character", [aliases |-> Null, valid_in |-> Null]),
    Page("character", [aliases |-> List(<<Str("Mir"), Str("Ren")>>),
                       lifespan |-> Map([earliest |-> Num(380), precision |-> Str("exact")])]),
    Page("event", [date |-> Map([era |-> Str("lost_age")]), lifespan |-> Map([earliest |-> Num(380)]),
                   visibility |-> Visibility("spoiler", "act9"), mood |-> Str("grim")]),
    Page("decision", [outcomes |-> List(<<Str("Mir")>>), relations |-> List(<<Str("r")>>)]),
    Page("character", [aliases |-> Str("Mir"), lifespan |-> Str("someday")]),
    Page("decision", [outcomes |-> Map([held |-> Str("Mir")]), visibility |-> Null,
                      aliases |-> List(<<Null, Str("Ren")>>)])}

MCNumerals == <<"0", "1", "2", "3", "4">>
MCActs == <<"act1", "act2">>
MCYearOf == "380" :> 380 @@ "431" :> 431
MCTexts == {"", "380", "soon"}
MCProses == {<<Blank, "Twice.">>}
=============================================================================
