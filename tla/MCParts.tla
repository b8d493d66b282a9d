------------------------------ MODULE MCParts ------------------------------
(* What a command does on this side of its run: it takes the lock of the    *)
(* project, shows the screen of an installing command and its workspace for *)
(* name collisions, or edits a facet.  The four share no variable, so a     *)
(* behaviour is one of any one of them, and the others rest in one of their *)
(* initial states.                                                          *)
EXTENDS InstallLock, InstallView, CollisionWorkspace, MCEditSession

Anywhere == LockPlaces \ {"dead"}

\* Two facets want one asset and one server, a third has another asset; in the
\* second project the user has left out the server of one of them, aliased the
\* asset of the third, and has a leftover choice for an asset now gone.
MCContents ==
    [f |-> [x |-> "fx", s |-> "d1"], g |-> [x |-> "gx", s |-> "d2"], h |-> [y |-> "hy", t |-> "d2"]]

MCRequests ==
    {[contents |-> MCContents, over |-> [f |-> <<>>, g |-> <<>>, h |-> <<>>]],
     [contents |-> MCContents,
      over |-> [f |-> [s |-> "omitted", y |-> "omitted"], g |-> <<>>, h |-> [y |-> "z"]]]}

VARIABLE part  \* the one this behaviour is of

Init ==
    /\ LockInit /\ ViewInit /\ WorkspaceInit /\ EditInit
    /\ part \in {"lock", "view", "workspace", "edit"}
    /\ part # "workspace" => request.over["h"] = <<>>
    /\ part # "edit" => "s2" \in DOMAIN project.manifest.assets

LockPart(A) ==
    /\ part = "lock" /\ A
    /\ UNCHANGED <<part, viewVars, workspaceVars, editVars>>

ViewPart(A) ==
    /\ part = "view" /\ A
    /\ UNCHANGED <<part, lockVars, workspaceVars, editVars>>

Next ==
    \/ LockPart(LockNext)
    \/ ViewPart(ViewNext)
    \/ /\ part = "workspace" /\ WorkspaceNext
       /\ UNCHANGED <<part, lockVars, viewVars, editVars>>
    \/ /\ part = "edit" /\ EditNext
       /\ UNCHANGED <<part, lockVars, viewVars, workspaceVars>>

vars == <<part, lockVars, viewVars, workspaceVars, editVars>>

\* The fairness of the lock and of the screen, where the behaviour is of them.
Fairness ==
    /\ \A p \in Procs : WF_vars(LockPart(LockStep(p)))
    /\ WF_vars(ViewPart(Resume \/ Return))
    /\ WF_vars(ViewPart(Render))
    /\ WF_vars(ViewPart(Flush))

Spec == Init /\ [][Next]_vars /\ Fairness
=============================================================================
