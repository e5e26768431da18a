-------------------------- MODULE MCRefinementLoop --------------------------
(* Instances of RefinementLoop for TLC.                                    *)
EXTENDS RefinementLoop, TLC

\* A test about obligation "pay" or "retry", or about nothing that is asked
\* for; sound, too vague to run, contradictory, or without evidence.  The two
\* vague tests of "pay" are hardened into the same text.
Sound         == {"pay", "pay!", "retry", "other"}
Vague         == {"pay 1?", "pay 2?", "retry?"}
AllContents   == Sound \union Vague \union {"wrong", "unproven"}

Tidied        == [c \in AllContents |-> c]
HardenVague   == [c \in AllContents |-> CASE c \in {"pay 1?", "pay 2?"} -> "pay!"
                                          [] c = "retry?"               -> "retry"
                                          [] OTHER                      -> c]
\* Rewriting the steps of a test may lose the words that matched it.
ReviseVague   == [c \in AllContents |-> CASE c \in {"retry", "retry?"}  -> {"retry", "other"}
                                          [] OTHER -> {HardenVague[c]}]
MadeForEach   == [o \in Obligations |-> o]
Graded        == [c \in AllContents |-> CASE c \in Vague    -> "needs_revision"
                                          [] c = "wrong"    -> "invalid"
                                          [] c = "unproven" -> "insufficient_evidence"
                                          [] OTHER          -> "valid"]
About         == [c \in AllContents |-> CASE c \in {"pay", "pay!", "pay 1?", "pay 2?"} -> "pay"
                                          [] c \in {"retry", "retry?"} -> "retry"
                                          [] OTHER                     -> c]
Matching      == [c \in AllContents |-> {o \in Obligations : About[c] = o}]
SameText      == {<<c, c>> : c \in AllContents}
\* Two tests of one path and title are alike, whatever their steps.
SamePath      == SameText \union {<<"pay!", "other">>, <<"other", "pay!">>}

SuitesOver(tests, says) ==
  {[t \in Ids |-> IF t \in tests THEN s[t] ELSE NoTest] : s \in [tests -> says]}
\* Up to three tests, of which one may not be edited, one is a human's, and
\* two can be rewritten.
AnySuite ==
  UNION {SuitesOver(tests, AllContents) : tests \in {T \in SUBSET (1..4) : Cardinality(T) \in 1..3}}
SmallSuite == UNION {SuitesOver(tests, {"pay!", "retry?"}) : tests \in {{1}, {1, 2}}}
=============================================================================
