----------------------------- MODULE LoginDialog -----------------------------
(***************************************************************************)
(* The login dialog of qq_main_list: a first page with one button, and a   *)
(* second page with account, password and the agreement's check box.  Only *)
(* the widgets of the page on top can be used, and none of them while a    *)
(* message box is open.                                                    *)
(***************************************************************************)
EXTENDS BackendAdapter

VARIABLES
    page,       \* the page on top: "simple" or "account"
    account,    \* the account field holds more than blanks
    password,   \* the password field is not empty
    agreed,     \* agreeCheck_
    enabled,    \* accountLoginBtn_->isEnabled()
    error,      \* errorLabel_ was made visible (it lies on the first page)
    warned      \* the message box about a failed login is open

loginVars == <<page, account, password, agreed, enabled, error, warned>>

LoginTypeOK ==
    /\ page \in {"simple", "account"}
    /\ <<account, password, agreed, enabled, error, warned>> \in
           [1..6 -> BOOLEAN]

(* The account field starts with an example in it. *)
LoginInit ==
    /\ page = "simple"
    /\ account = TRUE
    /\ password = FALSE
    /\ agreed = FALSE
    /\ enabled = FALSE
    /\ error = FALSE
    /\ warned = FALSE

Open == stage = "login" /\ ~warned

UpdateLoginEnabled(acc, pwd, agr) == enabled' = (agr /\ acc /\ pwd)

(* The fields and the check box of the second page; each change ends in    *)
(* updateLoginEnabled.                                                     *)
Edit ==
    /\ Open /\ page = "account"
    /\ \/ account' \in BOOLEAN /\ UNCHANGED <<password, agreed>>
       \/ password' \in BOOLEAN /\ UNCHANGED <<account, agreed>>
       \/ agreed' \in BOOLEAN /\ UNCHANGED <<account, password>>
    /\ UpdateLoginEnabled(account', password', agreed')
    /\ UNCHANGED <<backendVars, page, error, warned>>

SwitchToAccountPage ==
    /\ page' = "account"
    /\ UpdateLoginEnabled(account, password, agreed)
    /\ UNCHANGED error

SwitchToSimplePage == page' = "simple" /\ error' = FALSE /\ UNCHANGED enabled

LabelsShown_Always == TRUE      \* mutant: the labels are shown on both pages

(* nameClick_ and addLabel_ lie on the first page. *)
LabelsShown == page = "simple"

(* A press on the name is toggleInputs, one on "add account" is            *)
(* switchToAccountPage; on the first page they come to the same.           *)
PressLabel ==
    /\ Open /\ LabelsShown
    /\ IF page = "simple" THEN SwitchToAccountPage ELSE SwitchToSimplePage
    /\ UNCHANGED <<backendVars, account, password, agreed, warned>>

(* backend_->login and what follows it on either page. *)
TryLogin ==
    \E ok \in BOOLEAN :
       /\ Login(account, password, ok)
       /\ error' = ~ok
       /\ warned' = ~ok
       /\ stage' = IF ok THEN "accepted" ELSE stage
       /\ UNCHANGED <<mailVars, page, enabled>>

(* handleLogin: either page's button.  The second page's can only be       *)
(* pressed while it is enabled.                                            *)
HandleLogin ==
    /\ Open
    /\ page = "account" => enabled
    /\ IF page = "simple" /\ ~(account /\ password)
       THEN /\ page' = "account"
            /\ UpdateLoginEnabled(account, password, agreed)
            /\ error' = TRUE
            /\ UNCHANGED <<backendVars, warned>>
       ELSE TryLogin
    /\ UNCHANGED <<account, password, agreed>>

CloseWarning ==
    /\ warned /\ warned' = FALSE
    /\ UNCHANGED <<backendVars, page, account, password, agreed, enabled, error>>

(* reject(): exec returns, and main() with it. *)
Reject ==
    /\ Open /\ stage' = "ended"
    /\ UNCHANGED <<loginVars, coreVars, mailVars>>
=============================================================================
