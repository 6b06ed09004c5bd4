------------------------------ MODULE MCEnroll ------------------------------
(***************************************************************************)
(* The registration flow of README.md, and of the store of the service.    *)
(***************************************************************************)
EXTENDS EnrollFlow

MCFlow == <<"START", "START_ACK", "EMAIL", "EMAIL_ACK", "CONFIRM_EMAIL", "CONFIRM_EMAIL_ACK",
            "CREATE_USER", "CREATE_USER_ACK", "FINISH", "FINISH_ACK">>
\* what the theorems of EnrollFlowProofs suppose of a flow
ASSUME OrderedFlow

MCEmails == {"first", "second"}
MCOneEmail == {"first", Blank}
MCEveryOutcome == {"ok", "refused", "lost"}
MCReliable == {"ok"}
=============================================================================
