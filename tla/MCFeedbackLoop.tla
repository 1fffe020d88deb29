---------------------------- MODULE MCFeedbackLoop ----------------------------
(* Small instances of FeedbackLoop. *)
EXTENDS FeedbackLoop, TLC

CONSTANTS t1, t2, s1, s2, k1, k2, tr1, tr2, l1, l2, m1, m2

TwoCustomers == {t1, t2}
OneCustomer == {t1}
TwoSupervisors == {s1, s2}
OneConversation == {k1}
TwoConversations == {k1, k2}
OneTrace == {tr1}
TwoTraces == {tr1, tr2}
TwoLayers == {l1, l2}
OneMessage == {m1}
TwoMessages == {m1, m2}
BothRatings == {"helpful", "unhelpful"}

Symmetric == Permutations(TwoCustomers) \cup Permutations(TwoSupervisors)
               \cup Permutations(TwoConversations)
=============================================================================
