----------------------------- MODULE MCRunQueue -----------------------------
(* Instances of RunQueue for TLC.  r1 runs under base URL "shop" and opens
   "blog" as well; r2 is a run of "shop" without a base URL, the first of whose
   gotos is in a shared action; r3 is a run of "blog". *)
EXTENDS RunQueue, TLC

CONSTANTS r1, r2, r3, w1, w2, s1, s2

TwoWorkers  == s1 :> w1 @@ s2 :> w2
OneSlot     == s1 :> w1

Relative    == [stored |-> NoHost, opened |-> NoHost]
Plain(h)    == [stored |-> h, opened |-> h]
InAction(h) == [stored |-> NoHost, opened |-> h]

Requests ==
    r1 :> [base |-> "shop", gotos |-> <<Relative, Plain("blog")>>, version |-> "v1"] @@
    r2 :> [base |-> NoHost, gotos |-> <<InAction("shop"), Plain("shop")>>, version |-> "v2"] @@
    r3 :> [base |-> NoHost, gotos |-> <<Plain("blog")>>, version |-> "v3"]
=============================================================================
