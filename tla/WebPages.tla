------------------------------ MODULE WebPages ------------------------------
(***************************************************************************)
(* Browsers on one of the pages of the web application: the project page,  *)
(* where the masked value and the edit form of a secret live and die       *)
(* together; the history page of a secret; the activity page; and the      *)
(* forms that make an account or a workspace, as several people use them.  *)
(***************************************************************************)
EXTENDS MaskedSecret, UpdateForm, VersionDiff, AuditListing, Accounts

VARIABLE page

webVars == <<page, maskVars, formVars, compareVars, auditVars, accountVars>>

WebInit ==
    /\ page \in {"project", "history", "activity", "accounts"}
    /\ MaskInit /\ FormInit /\ CompareInit /\ ListingInit /\ AccountsInit
    /\ page = "history" \/ history = <<Blank>>

\* The tab is reloaded: no component survives.
ReloadProject == Unmount /\ Reload

OnProjectPage(Step) ==
    /\ page = "project"
    /\ Step
    /\ UNCHANGED <<page, compareVars, auditVars, accountVars>>

ProjectPage ==
    \/ OnProjectPage(MaskNext /\ UNCHANGED formVars)
    \/ OnProjectPage(FormNext /\ UNCHANGED maskVars)
    \/ OnProjectPage(ReloadProject)

HistoryPage ==
    /\ page = "history"
    /\ CompareNext
    /\ UNCHANGED <<page, maskVars, formVars, auditVars, accountVars>>

ActivityPage ==
    /\ page = "activity"
    /\ ListingNext
    /\ UNCHANGED <<page, maskVars, formVars, compareVars, accountVars>>

AccountPages ==
    /\ page = "accounts"
    /\ AccountsNext
    /\ UNCHANGED <<page, maskVars, formVars, compareVars, auditVars>>

WebNext == ProjectPage \/ HistoryPage \/ ActivityPage \/ AccountPages

\* The browser runs effects and intervals.
WebSpec ==
    /\ WebInit /\ [][WebNext]_webVars
    /\ WF_webVars(OnProjectPage(RunEffects /\ UNCHANGED formVars))
    /\ WF_webVars(OnProjectPage(CountDown /\ UNCHANGED formVars))
=============================================================================
