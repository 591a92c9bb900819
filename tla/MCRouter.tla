------------------------------- MODULE MCRouter -------------------------------
(* Instances of Router for TLC: C and C++, each of which stands in for the *)
(* other in languageGroups, and a language without a group.                *)
EXTENDS Router

CONSTANTS cLang, cppLang, goLang

Groups == [l \in Langs |-> CASE l = cLang -> cppLang [] l = cppLang -> cLang [] OTHER -> NoLang]
==============================================================================
