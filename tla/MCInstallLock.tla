--------------------------- MODULE MCInstallLock ---------------------------
(* InstallLock with processes that may die at every place. *)
EXTENDS InstallLock

Anywhere == LockPlaces \ {"dead"}
=============================================================================
