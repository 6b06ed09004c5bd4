------------------------------ MODULE MCWfFlow ------------------------------
(***************************************************************************)
(* A workflow that nobody stops.  F1 feeds F2 and F3.  F2 may fail, has    *)
(* one retry, and sends what failed for good to F3 too: two workers put    *)
(* into F3 and execute it at the same time.  What F2 does not fail it      *)
(* explodes like a SeqExec, into F4.  The queues are short, so puts block. *)
(***************************************************************************)
EXTENDS WfRuntime

MCExec == {"F1", "F2", "F3", "F4"}
MCLinks == <<[from |-> "F1", out |-> "out-0", to |-> "F2", in |-> "in-0"],
             [from |-> "F1", out |-> "out-1", to |-> "F3", in |-> "in-0"],
             [from |-> "F2", out |-> "err-0", to |-> "F3", in |-> "in-1"],
             [from |-> "F2", out |-> "out-0", to |-> "F4", in |-> "in-0"]>>
MCOutcomes == [x \in MCExec |-> IF x = "F2" THEN {"ok", "fail"} ELSE {"ok"}]
MCUnits == [x \in MCExec |-> IF x = "F2" THEN 2 ELSE 1]
MCRetryMax == [x \in MCExec |-> IF x = "F2" THEN 1 ELSE 0]
MCEntry == {<<"F1", "in-0">>}
MCInitialStates == {NoState}
=============================================================================
