-------------------------- MODULE PipelineRecovery --------------------------
(***************************************************************************)
(* PipelineStacks with an end to the failures: what the retries of the     *)
(* user reach once calls and stacks do not fail any more, from whatever    *)
(* the failures before have left.                                          *)
(***************************************************************************)
EXTENDS PipelineStacks

VARIABLE stable  \* nothing fails any more

rvars == <<vars, stable>>

RInit == Init /\ stable = FALSE

Recover == ~stable /\ stable' = TRUE /\ UNCHANGED vars

Asks == /\ UpdateRequest \/ AppRequest \/ UpgradeRequest \/ DeleteRequest
        /\ UNCHANGED stable

Retries == RetryRequest /\ UNCHANGED stable

\* Once nothing fails any more, the listener finds every stack that there is.
Ends ==
  /\ \/ EndExecution
     \/ \E unseen \in SUBSET Unseen : (stable => unseen = {}) /\ HandleStateEvent(unseen)
  /\ UNCHANGED stable

\* What the execution does with a stack it has reached; a call that
\* CloudFormation refuses is still refused.
Acts(s) ==
  /\ \/ PassStack(s) \/ StartStack(s) \/ SkipDelete(s) \/ SettleStack(s)
     \/ ActionFails(s) /\ (stable => Refused(s))
  /\ UNCHANGED stable

Reports(s) == HandleStackEvent(s) /\ UNCHANGED stable

Settles(s) == (StackSucceeds(s) \/ ContinueRollback(s)) /\ UNCHANGED stable

Fails(s) == ~stable /\ (StartAgain(s) \/ StackFails(s)) /\ UNCHANGED stable

RNext == \/ Recover \/ Asks \/ Retries \/ Ends
         \/ \E s \in Stacks : Acts(s) \/ Reports(s) \/ Settles(s) \/ Fails(s)

\* Step Functions, the events and CloudFormation keep going, and the user keeps
\* asking for a retry.
Fairness ==
  /\ WF_rvars(Ends)
  /\ WF_rvars(Retries)
  /\ \A s \in Stacks : WF_rvars(Acts(s)) /\ WF_rvars(Reports(s)) /\ WF_rvars(Settles(s))

RSpec == RInit /\ [][RNext]_rvars /\ Fairness

\* Once nothing fails any more, the retries make the pipeline Active, however
\* the failures before have left its stacks and its record.
RetryRecovers == stable ~> (PipelineStatus = "Active")
=============================================================================
