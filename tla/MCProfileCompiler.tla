------------------------- MODULE MCProfileCompiler -------------------------
(***************************************************************************)
(* The profile compiler for TLC: the contracts of a small instance.        *)
(***************************************************************************)
EXTENDS ProfileCompiler

CONSTANT MaxFlags  \* bound on the risk flags of one contract

Contract(intent, kind, secondary, flags, urgency, change, small) ==
  [primaryIntent |-> intent, kind |-> kind, secondaryIntents |-> secondary, riskFlags |-> flags,
   urgency |-> urgency, behaviorChanges |-> change, small |-> small]

FewFlags(n) == {f \in SUBSET DOMAIN FLAG_OVERLAYS : Cardinality(f) <= n}
OneSecondary ==
  {{}} \cup {{i} : i \in {"specification", "documentation", "test-engineering", "refactor",
                          "security-remediation"}}

\* Every intent with up to MaxFlags flags; with one flag and a secondary intent or an urgency; a
\* small change; documentation that changes behaviour, of every kind.  A diagnosis that changes
\* behaviour is refused before.
MCContracts ==
  {c \in {Contract(i, "spec", {}, f, "undefined", b, FALSE) :
            i \in PrimaryIntents, f \in FewFlags(MaxFlags), b \in BOOLEAN}
       \cup {Contract(i, "spec", s, f, u, FALSE, FALSE) :
               i \in PrimaryIntents, s \in OneSecondary, f \in FewFlags(1),
               u \in {"undefined", "urgent", "incident"}}
       \cup {Contract(i, "spec", s, f, "undefined", b, TRUE) :
               i \in {"feature", "bugfix"}, s \in OneSecondary, f \in FewFlags(1), b \in BOOLEAN}
       \cup {Contract("documentation", k, {}, f, "undefined", TRUE, FALSE) :
               k \in {"feature", "bugfix", "research", "refactor"}, f \in FewFlags(2)} :
     c.primaryIntent = "diagnosis" => ~c.behaviorChanges}
=============================================================================
