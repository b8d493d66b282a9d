------------------------ MODULE MaterializationPlan -------------------------
(* The naming rule of a project: given everything its facets contribute and *)
(* the overrides its manifest records, under which name each contribution   *)
(* is placed, and whether two of them contend for one place.                *)
(*                                                                          *)
(* A contribution is an asset (a file) or an MCP server (an entry of the    *)
(* tool's configuration); a place is a name in the space of its kind.       *)
(* `contents` gives every facet the payloads of its authored names, `over`  *)
(* the dispositions the project chose for some of them.                     *)
EXTENDS FiniteSets

CONSTANTS Facet, AssetName, ServerName,
          IllegalAlias  \* aliases outside the grammar of names

Name == AssetName \cup ServerName

ASSUME NamesAssumption ==
    /\ AssetName \cap ServerName = {}
    /\ Name \cap IllegalAlias = {}
    /\ {"authored", "omitted"} \cap (Name \cup IllegalAlias) = {}

\* What may be recorded for a name.  An alias is a name of the same kind, or
\* not a name at all.
Disposition(n) ==
    {"authored", "omitted"} \cup IllegalAlias
        \cup (IF n \in ServerName THEN ServerName ELSE AssetName)

Intent(over, f, n) == IF n \in DOMAIN over[f] THEN over[f][n] ELSE "authored"

EffectiveName(n, as) == IF as = "authored" THEN n ELSE as

Claim(contents, over, f, n) ==
    [facet |-> f, name |-> n, as |-> Intent(over, f, n), holds |-> contents[f][n]]

Planned(contents, over) ==
    UNION {{Claim(contents, over, f, n) : n \in DOMAIN contents[f]} : f \in DOMAIN contents}

KindOf(n) == IF n \in ServerName THEN "server" ELSE "file"

FilePlaces == {"file"} \X AssetName

ServerPlaces == {"server"} \X ServerName

\* Where a claim that is not omitted ends up.
Place(c) == <<KindOf(c.name), EffectiveName(c.name, c.as)>>

Materialized(contents, over) == {c \in Planned(contents, over) : c.as # "omitted"}

\* Two files never share a place; two servers do when they are the same one.
Contend(c, d) ==
    /\ c # d
    /\ Place(c) = Place(d)
    /\ c.name \in ServerName => c.holds # d.holds

Contested(contents, over) ==
    {c \in Materialized(contents, over) :
        \E d \in Materialized(contents, over) : Contend(c, d)}

InvalidAliases(contents, over) ==
    {c \in Planned(contents, over) : c.as \in IllegalAlias}

\* Overrides of names the facet does not contribute.
StaleOverrides(contents, over) ==
    UNION {{<<f, n>> : n \in DOMAIN over[f] \ DOMAIN contents[f]} : f \in DOMAIN contents}

Plannable(contents, over) ==
    /\ InvalidAliases(contents, over) = {}
    /\ Contested(contents, over) = {}

Assets(claims) == {c \in claims : c.name \in AssetName}

Servers(claims) == {c \in claims : c.name \in ServerName}

Places(claims) == {Place(c) : c \in claims}

\* What a set of claims wants at one of its places.
WantedAt(claims, pl) == (CHOOSE c \in claims : Place(c) = pl).holds
=============================================================================
