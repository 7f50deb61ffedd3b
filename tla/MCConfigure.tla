---------------------------- MODULE MCConfigure ----------------------------
(* Configure on a small instance: a file two patches change, one a patch   *)
(* creates and a later one changes, and one outside the series; two LLVM   *)
(* releases, two members of an archive and two parts to install.           *)
EXTENDS Configure

CONSTANTS vec, kernel, other

MCPaths == {vec, kernel, other}
MCTracked == {vec, other}
MCSeries == <<{vec, kernel}, {kernel}>>

MCVersions == {"v21", "v22"}
MCMembers == {"libcxx", "runtimes"}
MCParts == {"headers", "library"}
=============================================================================
