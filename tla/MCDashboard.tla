------------------------------ MODULE MCDashboard ------------------------------
(* An instance of Dashboard for TLC: the three applications of the repository's   *)
(* roles.toml and allowlist.toml.  Those name all three; the files shipped here   *)
(* leave one out, so that it can be allowed and given its first role.             *)
EXTENDS Dashboard

CONSTANTS terminal, firefox, nautilus

McApp == {terminal, firefox, nautilus}
McShippedApps == {terminal, firefox}
McTypedLists == {{}, {terminal, nautilus}}
McShippedRoles == <<[app |-> terminal, role |-> Maestro],
                    [app |-> firefox, role |-> "BranchA"]>>
=============================================================================
