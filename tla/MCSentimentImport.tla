-------------------------- MODULE MCSentimentImport --------------------------
(***************************************************************************)
(* Model-checking instance of SentimentImport.  The key alias names the    *)
(* attribute clean, and the key both names clean and food; view and        *)
(* outlook are attributes of two categories with one name; closed exists   *)
(* and is inactive.                                                        *)
(***************************************************************************)
EXTENDS SentimentImport, TLC

CONSTANTS j1, j2, h1, h2, clean, food, alias, both, view, outlook, closed

MCNameOf ==
    [k \in Keys |-> CASE k = clean -> "clean" [] k = food -> "food" [] k = alias -> "alias"
                      [] k = both -> "both" [] k = closed -> "closed" [] OTHER -> "view"]
MCAliasOf ==
    [k \in Keys |-> IF k = alias THEN {clean} ELSE IF k = both THEN {clean, food} ELSE {}]
MCMentioned == {<<h1, clean>>, <<h1, food>>}
MCIds ==
    LET keys == <<clean, food, alias, both, view, outlook, closed>>
    IN  [c \in Hotels \X Keys |-> (CHOOSE i \in DOMAIN keys : keys[i] = c[2])
                                 + IF c[1] = h1 THEN 0 ELSE Len(keys)]

E(kind, k, s) == [kind |-> kind, key |-> k, score |-> s]
Good(k, s) == E("good", k, s)
L(kind, h, es) == [kind |-> kind, hotel |-> h, entries |-> es]
Record(h, es) == L("hotel", h, es)
Blank == L("blank", h1, <<>>)
Bad == L("malformed", h1, <<>>)
Unknown == L("unknown", h1, <<>>)

MCFiles == {
    \* two jobs on the attributes of one hotel in opposite orders
    j1 :> <<Record(h1, <<Good(clean, 1), Good(food, 1)>>)>>
    @@ j2 :> <<Record(h1, <<Good(food, 2), Good(clean, 2)>>)>>,
    \* attributes of the same name created at the same time, by a batch that
    \* holds a row the other waits for, and by a hotel that fails
    j1 :> <<Record(h1, <<Good(clean, 1)>>), Record(h2, <<Good(view, 1)>>)>>
    @@ j2 :> <<Record(h1, <<Good(outlook, 2), Good(clean, 1), Good(alias, 1)>>)>>,
    \* a hotel that names one attribute twice, an ambiguous name, an inactive
    \* attribute, an unknown hotel, entries and categories that do not parse
    j1 :> <<Record(h1, <<Good(clean, 1), Good(alias, 2)>>),
            Record(h1, <<Good(both, 1), E("zero", food, 1), Good(closed, 2),
                          Good(clean, 1)>>),
            Unknown, Blank, Bad,
            Record(h1, <<E("category", food, 1), Good(food, 2), E("malformed", clean, 1),
                          Good(food, 1), Good(closed, 1)>>)>>
    @@ j2 :> <<>>
    }
=============================================================================
