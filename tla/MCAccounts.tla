----------------------------- MODULE MCAccounts -----------------------------
(***************************************************************************)
(* Sign-in with an external provider when nothing goes wrong: nobody       *)
(* interferes, no call of Redis, of the provider or of the database fails  *)
(* and no state expires.                                                   *)
(***************************************************************************)
EXTENDS Accounts, TLC

CONSTANTS r1, s1, u1, e1

Google == {[provider |-> "google", id |-> 1]}
OneProvider == {{"google"}}
WebSignIn == {[provider |-> "google", platform |-> "web"]}

CalmStep(r) ==
  /\ \/ GetState(r) \/ DelState(r) \/ GoogleCallback(r)
     \/ FindById(r) \/ FindByEmail(r) \/ UpdateUser(r) \/ CreateUser(r)
  /\ UNCHANGED configured
Starts ==
  /\ \E s \in States : \/ \E p \in Purposes : GetProviderAuthUrl(s, p)
                      \/ \E r \in Requests : HandleProviderCallback(r, s, "google")
  /\ UNCHANGED configured
CalmNext == Starts \/ \E r \in Requests : CalmStep(r)
CalmSpec == Init /\ [][CalmNext]_vars /\ \A r \in Requests : WF_vars(CalmStep(r))

\* "Processes the OAuth callback from providers and completes the authentication flow"
\* (auth.controller.ts 235-236): a callback that brings back a state made for its provider
\* gets past the state check and asks the provider for the profile.
CallbackCompletes ==
  \A r \in Requests :
    (req[r].pc = "get" /\ req[r].state \in live /\ Matches(r)) ~> req[r].pc = "exchange"
=============================================================================
