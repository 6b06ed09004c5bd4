------------------------------ MODULE MCWfStop ------------------------------
(***************************************************************************)
(* A workflow that is stopped: F3 may be a TerminateExec, F2 may throw and *)
(* a caller may stop it too.  The callers are App and an exec with a thread*)
(* of its own (CronExec, FifoExec, HttpServerExec), which emits as soon as *)
(* start() has reached it.                                                 *)
(***************************************************************************)
EXTENDS WfRuntime

MCExec == {"F1", "F2", "F3"}
MCLinks == <<[from |-> "F1", out |-> "out-0", to |-> "F2", in |-> "in-0"],
             [from |-> "F2", out |-> "out-0", to |-> "F3", in |-> "in-0"]>>
MCOutcomes == [x \in MCExec |-> CASE x = "F1" -> {"ok"}
                                  [] x = "F2" -> {"ok", "throw"}
                                  [] x = "F3" -> {"ok", "stop"}]
MCUnits == [x \in MCExec |-> 1]
MCRetryMax == [x \in MCExec |-> 0]
MCEntry == {<<"F1", "in-0">>, <<"F2", "in-0">>}
MCInitialStates == {NoState, [status |-> "RUNNING", count |-> 1]}
MCNotRecorded == {NoState}
MCRecovered == {[status |-> "RUNNING", count |-> 1]}
=============================================================================
