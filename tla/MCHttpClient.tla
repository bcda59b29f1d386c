----------------------------- MODULE MCHttpClient -----------------------------
(***************************************************************************)
(* Instances of HttpClient for TLC.                                        *)
(***************************************************************************)
EXTENDS HttpClientProperties

Names == {"Region", "REGION", "Zone", "two words"}
MCToken == Names \ {"two words"}
MCLower == [h \in Names \cup {NoHeader} |->
              IF h \in {"Region", "REGION"} THEN "region" ELSE h]

Node(up, via, prop, header, type) ==
    [up |-> up, via |-> via, prop |-> prop, header |-> header, type |-> type]
Root == Node(0, "root", "", NoHeader, "object")
Prop(up, prop, header, type) == Node(up, "properties", prop, header, type)

Plain   == <<Root, Prop(1, "region", NoHeader, "string")>>
Region  == <<Root, Prop(1, "region", "Region", "string")>>
Nested  == <<Root, Prop(1, "place", NoHeader, "object"), Prop(2, "zone", "Zone", "string"),
             Prop(1, "region", "REGION", "string")>>
Twice   == <<Root, Prop(1, "region", "Region", "string"), Prop(1, "area", "REGION", "string")>>
InItems == <<Root, Prop(1, "places", NoHeader, "array"), Node(2, "items", "", NoHeader, "object"),
             Prop(3, "zone", "Zone", "string")>>
NoToken == <<Root, Prop(1, "region", "two words", "string")>>
Number  == <<Root, Prop(1, "region", "Region", "number")>>
InAny   == <<Root, Prop(1, "place", NoHeader, "none"), Node(2, "anyOf", "", "Zone", "string")>>

AllSchemas == {<<>>, Plain, Region, Nested, Twice, InItems, NoToken, Number, InAny}

\* An annotation in a list under a subschema that walkSchema takes for a map.
Buried  == <<Root, Prop(1, "places", NoHeader, "array"), Node(2, "items", "", NoHeader, "none"),
             Node(3, "anyOf", "", "Zone", "string")>>

FewSchemas == {<<>>, Plain, Region, Nested, Twice, Buried}
BuriedSchemas == {Region, Buried}

\* The walk finds the malformed ones of these schemas, and takes Buried for well
\* formed (headers.go:113-125).  That it finds no others is proved.
ASSUME WalkTells == \A s \in AllSchemas : Malformed(s) => Invalid(s)
ASSUME BuriedIsKept == IsSchema(Buried) /\ Malformed(Buried) /\ ~Invalid(Buried)

Text(layers, odd) == [layers |-> layers, odd |-> odd]
MCArgs ==
    {[p \in {<<"region">>, <<"place", "zone">>} |-> Text(1, FALSE)],
     [p \in {<<"region">>} |-> Text(0, TRUE)]}

MCProbed ==
    [k \in {"modern", "legacy"} |->
       IF k = "modern"
       THEN {<<"2xx", "ok">>, <<"400", "unsupported">>, <<"404", "no method">>,
             <<"400", "mismatch">>, <<"400", "capability">>}
       ELSE {<<"400", "none">>, <<"400", "no method">>, <<"404", "none">>}]
MCFaults == {<<"other", "none">>}
MCOffers == {{}, {2}, {2, 3}}
=============================================================================
