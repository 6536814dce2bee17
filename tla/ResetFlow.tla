------------------------------ MODULE ResetFlow ------------------------------
(***************************************************************************)
(* What the password-reset page promises (spec sections 2, 4 and 7), as    *)
(* the sequence of views the user sees.  The link is checked once while a  *)
(* spinner shows; then the user sees the form, is sent to the recovery-key *)
(* page, or sees the expired or damaged view.  From the form, a submission *)
(* ends on the success page, the TOTP step, the relying party, or the      *)
(* expired view; a failed submission leaves the form up, and the banner of *)
(* a failed recovery-key lookup links to the recovery-key page.  Every     *)
(* view other than the spinner and the form is terminal.                   *)
(***************************************************************************)
VARIABLE view

Views == {"loading", "form", "recoveryKey", "expired", "damaged",
          "verified", "signin_totp_code", "relier"}

TypeOK == view \in Views

Init == view = "loading"

\* The link validator and the recovery-key gate decide the first view.
LinkChecked ==
    /\ view = "loading"
    /\ view' \in {"form", "recoveryKey", "expired", "damaged"}

\* A submission of the form ends the flow.
ResetAnswered ==
    /\ view = "form"
    /\ view' \in {"verified", "signin_totp_code", "relier", "expired"}

\* The banner of a failed recovery-key lookup offers a link to the
\* recovery-key page (spec 4.2).
RecoveryKeyLinkFollowed ==
    /\ view = "form"
    /\ view' = "recoveryKey"

Next == LinkChecked \/ ResetAnswered \/ RecoveryKeyLinkFollowed

\* The checks of the link always answer; the user need not submit.
Spec == Init /\ [][Next]_view /\ WF_view(LinkChecked)
=============================================================================
