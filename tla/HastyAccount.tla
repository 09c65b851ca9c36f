---------------------------- MODULE HastyAccount ----------------------------
(***************************************************************************)
(* Promises that the app breaks: rewards are paid from points not in hand  *)
(* when the user does not wait for fetches (NeverOverdrawn under           *)
(* HastyRewardSpec), and two that not even a waiting user is kept.  Each   *)
(* property states what a text of the app says.                            *)
(***************************************************************************)
EXTENDS PatientAccount

\* A user who goes on with rewards without waiting for the fetches.
HastyRewardNext ==
    \/ PatientNext
    \/ \E d \in Device :
         \/ OpenHome(d)
         \/ \E p \in Price : ChooseReward(d, p)
         \/ TakeReward(d)

HastyRewardSpec == Init /\ [][HastyRewardNext]_vars

-----------------------------------------------------------------------------
\* ClaimCoinsModal.swift:37: the button of the claim sheet reads "GET n SP";
\* tapping it does not kill the app.
ClaimNeverTraps == [][\A d \in Device : ~ClaimTraps(d)]_vars

\* Strings.swift:168 heads the points of the week with "THIS WEEK"; they are
\* chosen by the date of each completion, which therefore stays what it was.
CompletionDatesKept ==
    [][Range(doc.completed) \subseteq Range(doc.completed')]_vars
=============================================================================
