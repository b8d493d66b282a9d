---------------------------- MODULE VersionSpecs ----------------------------
(* How facets.json and facets.lock write versions, and what an update makes *)
(* of them.  A version is <<major, minor, patch>>; a specifier has a kind   *)
(* and, in `at`, the components its kind names (the others are not read).   *)
EXTENDS Naturals

Version == Nat \X Nat \X Nat

SpecKind == {"exact", "minorWildcard", "majorWildcard", "wildcard", "latest"}

VersionSpec == [kind : SpecKind, at : Version]

Satisfies(v, spec) ==
    CASE spec.kind = "exact" -> v = spec.at
      [] spec.kind = "minorWildcard" -> v[1] = spec.at[1] /\ v[2] = spec.at[2]
      [] spec.kind = "majorWildcard" -> v[1] = spec.at[1]
      [] OTHER -> TRUE

\* a is strictly newer than b: component by component, as numbers.
IsNewerThan(a, b) ==
    \/ a[1] > b[1]
    \/ a[1] = b[1] /\ a[2] > b[2]
    \/ a[1] = b[1] /\ a[2] = b[2] /\ a[3] > b[3]

Exactly(v) == [kind |-> "exact", at |-> v]

\* What the registry answers: the newest release a specifier admits.
Newest(releases) ==
    CHOOSE v \in releases : \A w \in releases : ~ IsNewerThan(w, v)

Admitted(releases, spec) == {v \in releases : Satisfies(v, spec)}

\* An update asks for the newest release of all and, unless the facet is
\* pinned, for the newest one its specifier admits.
Answerable(releases, spec) ==
    releases # {} /\ (spec.kind # "exact" => Admitted(releases, spec) # {})

\* The two versions an update offers for a facet: the one its specifier
\* resolves to now (a pin is never asked about: it stays where it is) and the
\* newest one of all.
Target(releases, spec, current) ==
    IF spec.kind = "exact" THEN current ELSE Newest(Admitted(releases, spec))

Offer(releases, spec, current, choice) ==
    IF choice = "latest" THEN Newest(releases) ELSE Target(releases, spec, current)

\* A choice can be taken only when it moves the facet forward.
Advances(releases, spec, current, choice) ==
    IsNewerThan(Offer(releases, spec, current, choice), current)

\* The specifier an update leaves in facets.json: untouched when the choice
\* was within the range, else the smallest edit that admits the new version.
FinalManifestSource(spec, choice, selected) ==
    IF choice = "range" \/ spec.kind \in {"wildcard", "latest"}
    THEN spec
    ELSE [kind |-> spec.kind, at |-> selected]
=============================================================================
