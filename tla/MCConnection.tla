---------------------------- MODULE MCConnection ----------------------------
(* Budgets: what may happen in a run, and how often.                         *)
EXTENDS Connection
CONSTANT q1

MCEvents == {"drop", "signal", "error", "interrupt", "expire", "signOut", "newToken",
             "unlisten", "revoke"}
Once(S) == [e \in MCEvents |-> IF e \in S THEN 1 ELSE 0]

(* Everything that can overtake an attempt or a request, once each; failed   *)
(* fetches are in LiveBudget.                                                *)
SafetyBudget == Once(MCEvents \ {"error"})

(* A user who stays signed in and listens that stay, as in the app, while     *)
(* tokens expire and are replaced, a fetch fails and a connection breaks.     *)
LiveBudget == Once({"drop", "expire", "error", "newToken"})

(* A revoked token, and the app coming to the foreground.                    *)
RevokedBudget == Once({"drop", "expire", "signal"})

(* One lost connection.                                                      *)
DropBudget == Once({"drop"})
=============================================================================
