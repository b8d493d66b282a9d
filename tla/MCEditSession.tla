--------------------------- MODULE MCEditSession ----------------------------
(* EditSession on a project of up to two skills and an agent.               *)
EXTENDS EditSession

\* A disk on which the author wrote these files.
Wrote(paths) == [p \in Paths |-> IF p \in paths THEN "theirs" ELSE "absent"]

\* A declared skill with its companion and a README, and a second skill, a
\* second companion and a license nobody declared; and the other way round;
\* a skill that declares a hidden companion; a project with nothing to reconcile,
\* a hidden file nobody declared apart.
MCProjects ==
    {[manifest |-> [assets |-> [s1 |-> {"c1"}], files |-> {"README"}],
      disk |-> Wrote({Primary("s1"), CompanionOf("s1", "c1"), CompanionOf("s1", "c2"),
                      Primary("s2"), AtRoot("LICENSE"), AtRoot("README")})],
     [manifest |-> [assets |-> [s1 |-> {"c1"}, a1 |-> {}], files |-> {"LICENSE", "README"}],
      disk |-> Wrote({Primary("a1"), CompanionOf("s1", "c2")})],
     [manifest |-> [assets |-> [s1 |-> {}, s2 |-> {"c1", ".c"}], files |-> {}],
      disk |-> Wrote({Primary("s1"), Primary("s2"), CompanionOf("s2", "c1"),
                      CompanionOf("s2", ".c"), AtRoot("README")})],
     [manifest |-> [assets |-> [s1 |-> {"c1"}], files |-> {}],
      disk |-> Wrote({Primary("s1"), CompanionOf("s1", "c1"), CompanionOf("s1", ".c")})]}
=============================================================================
