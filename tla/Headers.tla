------------------------------- MODULE Headers -------------------------------
(***************************************************************************)
(* internal/mcp/headers.go: which headers a tools/call over HTTP mirrors.  *)
(*                                                                         *)
(* An input schema is a table of its subschemas: the root first, and every *)
(* other one after the one it stands in, with the keyword it stands under  *)
(* and, under "properties", the name of the property.  <<>> is a tool      *)
(* without a schema.  The keys of $defs and its like are taken not to be   *)
(* words of the schema language themselves.                                *)
(*                                                                         *)
(* The arguments of a call are a function from paths to values, for what   *)
(* is present, not null, and can be rendered (headerString).  A value is a *)
(* text that is plain or odd (not trimmed visible ASCII), inside so many   *)
(* layers of the base64 sentinel.                                          *)
(***************************************************************************)
EXTENDS Naturals, Sequences

CONSTANTS
    Token,      \* the annotations that can name a header (isToken)
    Lower,      \* Lower[h]: the name in lower case
    NoHeader    \* a subschema without x-mcp-header

\* unreachableKeywords, by what may follow them: a list of subschemas, one
\* subschema, or a map of named ones.
Lists   == {"prefixItems", "oneOf", "anyOf", "allOf"}
Singles == {"items", "additionalProperties", "not", "if", "then", "else"}
Maps    == {"patternProperties", "$defs", "definitions", "dependentSchemas"}

Keyword == {"root", "properties"} \cup Lists \cup Singles \cup Maps

IsSchema(s) ==
    /\ Len(s) \in Nat /\ DOMAIN s = 1 .. Len(s)
    /\ \A n \in DOMAIN s :
        /\ s[n].via \in Keyword
        /\ s[n].via = "root" <=> n = 1
        /\ n > 1 => s[n].up \in 1 .. n - 1

-----------------------------------------------------------------------------
(***************************************************************************)
(* walkSchema.                                                             *)
(***************************************************************************)
Path(s) ==
    LET path[n \in DOMAIN s] ==
          IF n = 1 THEN <<>>
          ELSE IF s[n].via = "properties" THEN Append(path[s[n].up], s[n].prop)
          ELSE path[s[n].up]
    IN  path

ReachableTop_Mutant(s) ==
    {n \in DOMAIN s : n = 1 \/ (s[n].via = "properties" /\ s[n].up = 1)}

Reachable(s) ==
    LET reach[n \in DOMAIN s] ==
          n = 1 \/ (s[n].via = "properties" /\ reach[s[n].up])
    IN  {n \in DOMAIN s : reach[n]}

\* What makes walkSchema take a single subschema for one: it has a type,
\* properties or an annotation.
Described(s, n) ==
    \/ s[n].type # "none" \/ s[n].header # NoHeader
    \/ \E m \in DOMAIN s : m > n /\ s[m].up = n /\ s[m].via = "properties"

\* An undescribed one is taken for a map: its values are walked in its stead,
\* which misses the lists and the maps among them.
Visited(s) ==
    LET walk[n \in DOMAIN s] ==
          IF n = 1 THEN "schema"
          ELSE LET above == walk[s[n].up]
                   single == s[n].via \in Singles
               IN  IF above = "schema" /\ single /\ ~Described(s, n) THEN "opened"
                   ELSE IF above = "schema" \/ (above = "opened" /\ single) THEN "schema"
                   ELSE "missed"
    IN  {n \in DOMAIN s : walk[n] = "schema"}

Annotated(s) == {n \in Visited(s) : s[n].header # NoHeader /\ Path(s)[n] # <<>>}

\* One annotation that no client can follow.
Wrong(s, n) ==
    \/ n \notin Reachable(s)
    \/ s[n].header \notin Token
    \/ s[n].type \notin {"integer", "string", "boolean"}

Clash(s, N) == \E m, n \in N : m # n /\ Lower[s[m].header] = Lower[s[n].header]

\* headerAnnotations returns an error.
Invalid(s) == (\E n \in Annotated(s) : Wrong(s, n)) \/ Clash(s, Annotated(s))

-----------------------------------------------------------------------------
(***************************************************************************)
(* mirrorHeaders.                                                          *)
(***************************************************************************)
NeedsEncodingOdd_Mutant(v) == v.layers = 0 /\ v.odd

NeedsEncoding(v) == v.layers > 0 \/ v.odd

\* encodeHeaderValue
Encode(v) == IF NeedsEncoding(v) THEN [v EXCEPT !.layers = @ + 1] ELSE v

\* The headers of one call.
Mirror(s, args) ==
    IF Invalid(s) THEN {}
    ELSE {[name |-> s[n].header, value |-> Encode(args[Path(s)[n]])] :
              n \in {m \in Annotated(s) : Path(s)[m] \in DOMAIN args}}
=============================================================================
