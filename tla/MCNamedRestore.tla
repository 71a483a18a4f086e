--------------------------- MODULE MCNamedRestore ---------------------------
(* NamedRestore for TLC.  g0 is an old library, g1 the one of the complete      *)
(* snapshot s1 and g2 has review activity that g0 does not keep; s2 is a legacy  *)
(* snapshot that binds only the first file.                                      *)
EXTENDS NamedRestore

CONSTANTS g0, g1, g2, s1, s2

MCGenerations == {g0, g1, g2}
MCNamed == {s1, s2}
MCFiles == <<"focus", "pilot", "settings">>
MCManifest ==
  [s \in MCNamed |->
     IF s = s1 THEN [db |-> g1, config |-> [f \in FileNames |-> g1]]
     ELSE [db |-> g0, config |-> [f \in FileNames |-> IF f = "focus" THEN g0 ELSE Preserve]]]
MCSwapped == {[db |-> g, config |-> [f \in FileNames |-> g]] : g \in {g0, g2}}
MCSupersets == (MCGenerations \X MCGenerations) \ {<<g2, g0>>}
MCReviewed == {g2}
=============================================================================
