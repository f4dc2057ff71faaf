----------------------------- MODULE MCProgress -----------------------------
(***************************************************************************)
(* Instances for TLC of what must end: StepUp with one operator, TelegramBot *)
(* and AuditChain.  They share no state and their product would show nothing *)
(* more than each alone, so a behaviour is one of one of them, and the       *)
(* others stay as they are initially.                                       *)
(***************************************************************************)
EXTENDS MCStepUp, TelegramBot, AuditChain

VARIABLE part

progressVars == <<vars, botVars, auditVars, part>>

ProgressInit ==
    /\ Init /\ BotInit /\ AuditInit
    /\ part \in {"stepup", "bot", "audit"}

ProgressNext ==
    /\ \/ part = "stepup" /\ Next
       \/ part # "stepup" /\ UNCHANGED vars
    /\ \/ part = "bot" /\ BotNext
       \/ part # "bot" /\ UNCHANGED botVars
    /\ \/ part = "audit" /\ AuditNext
       \/ part # "audit" /\ UNCHANGED auditVars
    /\ UNCHANGED part

(* Initially no call waits, no loop of the bot runs and no event waits for   *)
(* the audit log, so none is owed a step while another part moves.          *)
ProgressSpec ==
    /\ ProgressInit /\ [][ProgressNext]_progressVars
    /\ Fairness /\ BotFairness /\ AuditFairness

=============================================================================
