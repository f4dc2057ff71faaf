----------------------------- MODULE TelegramBot -----------------------------
(***************************************************************************)
(* The Telegram bot of the control plane: a loop that polls for updates and  *)
(* handles them one after the other.  /start with a token from the dashboard *)
(* links a chat, /unlink unlinks it, buttons decide approvals.  The offset   *)
(* is in memory only and nothing stops the loop of an old process while a    *)
(* new one starts, so updates are delivered again and by two loops.          *)
(*                                                                          *)
(* Telegram is external: it keeps the updates in order until a poll asks for *)
(* later ones.  A poll that fails is tried again and changes nothing.        *)
(***************************************************************************)
EXTENDS Integers, Sequences

CONSTANTS
    Bots,           \* processes whose loops may overlap
    Chats,
    LinkTokens,     \* rows of telegram_link_tokens, of one user
    Prompts,        \* rows of push_approvals
    NoChat,
    Saved,          \* what users save as their preferences
    MaxUpdates      \* bound on the updates users send

Preferences == [chat : Chats \cup {NoChat}, enabled : BOOLEAN]

ASSUME BotAssumption ==
    /\ MaxUpdates \in Nat \ {0}
    /\ NoChat \notin Chats
    /\ Saved \subseteq Preferences

VARIABLES
    inbox,          \* every update users sent, in order
    confirmed,      \* how many of them Telegram keeps no longer
    bots,           \* the loops
    results,        \* how the first handling of each update ended
    linkTokens,     \* the tokens, and the chats each one linked
    links,          \* rows of customer_telegram_links
    prefs,          \* the user's row of notification_preferences
    decidedBy       \* 0 for a pending approval, then the update that decided
                    \* it, or Elsewhere

botVars == <<inbox, confirmed, bots, results, linkTokens, links, prefs, decidedBy>>

-----------------------------------------------------------------------------
(* State                                                                    *)

Updates == [kind : {"start"}, token : LinkTokens, chat : Chats]
    \cup [kind : {"unlink"}, chat : Chats]
    \cup [kind : {"press"}, prompt : Prompts]

UpdateIds == 1 .. MaxUpdates
Elsewhere == MaxUpdates + 1

(* last is lastUpdateId, upto the end of the batch that getUpdates returned; *)
(* live is what handleStart read of its token.                               *)
BotStates == [running : BOOLEAN, last : 0 .. MaxUpdates, upto : 0 .. MaxUpdates,
              step : {"next", "handle", "commit"}, live : BOOLEAN]

BotDown == [running |-> FALSE, last |-> 0, upto |-> 0, step |-> "next", live |-> FALSE]

BotTypeOK ==
    /\ inbox \in Seq(Updates)
    /\ confirmed \in 0 .. Len(inbox)
    /\ bots \in [Bots -> BotStates]
    /\ \A b \in Bots : bots[b].upto <= Len(inbox)
    /\ results \in [UpdateIds -> {"none", "failed", "done"}]
    /\ linkTokens \in [LinkTokens -> [state : {"fresh", "consumed", "expired"},
                                      linked : SUBSET Chats]]
    /\ links \in [Chats -> {"none", "enabled", "disabled"}]
    /\ prefs \in Preferences
    /\ decidedBy \in [Prompts -> 0 .. Elsewhere]

BotInit ==
    /\ inbox = <<>>
    /\ confirmed = 0
    /\ bots = [b \in Bots |-> BotDown]
    /\ results = [i \in UpdateIds |-> "none"]
    /\ linkTokens = [t \in LinkTokens |-> [state |-> "fresh", linked |-> {}]]
    /\ links = [c \in Chats |-> "none"]
    /\ prefs = [chat |-> NoChat, enabled |-> FALSE]
    /\ decidedBy = [a \in Prompts |-> 0]

-----------------------------------------------------------------------------
(* Users                                                                    *)

Send(update) ==
    /\ Len(inbox) < MaxUpdates
    /\ inbox' = Append(inbox, update)
    /\ UNCHANGED <<confirmed, bots, results, linkTokens, links, prefs, decidedBy>>

(* notificationPreferences.update writes whatever the form held.            *)
SavePrefs(saved) ==
    /\ prefs' = saved
    /\ UNCHANGED <<inbox, confirmed, bots, results, linkTokens, links, decidedBy>>

(* The dashboard decides, or the row expires.                               *)
DecideElsewhere(a) ==
    /\ decidedBy[a] = 0
    /\ decidedBy' = [decidedBy EXCEPT ![a] = Elsewhere]
    /\ UNCHANGED <<inbox, confirmed, bots, results, linkTokens, links, prefs>>

TokenExpires(t) ==
    /\ linkTokens[t].state = "fresh"
    /\ linkTokens' = [linkTokens EXCEPT ![t].state = "expired"]
    /\ UNCHANGED <<inbox, confirmed, bots, results, links, prefs, decidedBy>>

-----------------------------------------------------------------------------
(* The loop                                                                 *)

BotStarts(b) ==
    /\ ~bots[b].running
    /\ bots' = [bots EXCEPT ![b].running = TRUE]
    /\ UNCHANGED <<inbox, confirmed, results, linkTokens, links, prefs, decidedBy>>

(* keeps its offset over a restart *)
BotCrashesKeeping(b) ==
    /\ bots[b].running
    /\ bots' = [bots EXCEPT ![b] = [BotDown EXCEPT !.last = bots[b].last,
                                                   !.upto = bots[b].last]]
    /\ confirmed' = IF bots[b].last > confirmed THEN bots[b].last ELSE confirmed
    /\ UNCHANGED <<inbox, results, linkTokens, links, prefs, decidedBy>>

(* lastUpdateId was in memory.                                              *)
BotCrashes(b) ==
    /\ bots[b].running
    /\ bots' = [bots EXCEPT ![b] = BotDown]
    /\ UNCHANGED <<inbox, confirmed, results, linkTokens, links, prefs, decidedBy>>

(* asks for the next batch before this one is handled *)
GetUpdatesEager(b) ==
    /\ bots[b].running
    /\ bots[b].step = "next"
    /\ Len(inbox) > confirmed
    /\ confirmed' = Len(inbox)
    /\ bots' = [bots EXCEPT ![b].upto = Len(inbox),
                            ![b].last = IF @ > confirmed THEN @ ELSE confirmed]
    /\ UNCHANGED <<inbox, results, linkTokens, links, prefs, decidedBy>>

(* getUpdates with the offset after lastUpdateId confirms those before it    *)
(* and returns all that are left.                                            *)
GetUpdates(b) ==
    LET kept == IF bots[b].last > confirmed THEN bots[b].last ELSE confirmed
    IN  /\ bots[b].running
        /\ bots[b].step = "next"
        /\ bots[b].last >= bots[b].upto
        /\ kept > confirmed \/ Len(inbox) > kept
        /\ confirmed' = kept
        /\ bots' = [bots EXCEPT ![b].last = kept, ![b].upto = Len(inbox)]
        /\ UNCHANGED <<inbox, results, linkTokens, links, prefs, decidedBy>>

(* lastUpdateId moves before the update is handled.                         *)
TakeUpdate(b) ==
    /\ bots[b].running
    /\ bots[b].step = "next"
    /\ bots[b].last < bots[b].upto
    /\ bots' = [bots EXCEPT ![b].last = @ + 1, ![b].step = "handle"]
    /\ UNCHANGED <<inbox, confirmed, results, linkTokens, links, prefs, decidedBy>>

Handling(b, kind, step) ==
    /\ bots[b].step = step
    /\ inbox[bots[b].last].kind = kind

Finished(b, result) ==
    /\ bots' = [bots EXCEPT ![b].step = "next", ![b].live = FALSE]
    /\ results' = [results EXCEPT ![bots[b].last] = IF @ = "none" THEN result ELSE @]

(* processUpdate logs what went wrong, and the loop goes on.                *)
HandleFails(b) ==
    /\ bots[b].step \in {"handle", "commit"}
    /\ Finished(b, "failed")
    /\ UNCHANGED <<inbox, confirmed, linkTokens, links, prefs, decidedBy>>

(* does not look at consumedAt *)
StartSelectExpiry(b) ==
    /\ Handling(b, "start", "handle")
    /\ bots' = [bots EXCEPT ![b].step = "commit",
                  ![b].live = linkTokens[inbox[bots[b].last].token].state # "expired"]
    /\ UNCHANGED <<inbox, confirmed, results, linkTokens, links, prefs, decidedBy>>

(* consumeStartToken selects the token, without a lock, ...                 *)
StartSelect(b) ==
    /\ Handling(b, "start", "handle")
    /\ bots' = [bots EXCEPT ![b].step = "commit",
                  ![b].live = linkTokens[inbox[bots[b].last].token].state = "fresh"]
    /\ UNCHANGED <<inbox, confirmed, results, linkTokens, links, prefs, decidedBy>>

(* ... and in the same transaction marks it, whatever its row says by then,  *)
(* links the chat and makes it the one the user's prompts go to.             *)
StartCommit(b) ==
    /\ Handling(b, "start", "commit")
    /\ LET update == inbox[bots[b].last]
       IN  IF bots[b].live
           THEN /\ linkTokens' = [linkTokens EXCEPT
                       ![update.token] = [state |-> "consumed",
                                          linked |-> @.linked \cup {update.chat}]]
                /\ links' = [links EXCEPT ![update.chat] = "enabled"]
                /\ prefs' = [chat |-> update.chat, enabled |-> TRUE]
           ELSE UNCHANGED <<linkTokens, links, prefs>>
    /\ Finished(b, "done")
    /\ UNCHANGED <<inbox, confirmed, decidedBy>>

(* handleUnlink; the preferences keep the chat.                             *)
HandleUnlink(b) ==
    /\ Handling(b, "unlink", "handle")
    /\ LET chat == inbox[bots[b].last].chat
       IN  links' = [links EXCEPT ![chat] = IF @ = "none" THEN @ ELSE "disabled"]
    /\ Finished(b, "done")
    /\ UNCHANGED <<inbox, confirmed, linkTokens, prefs, decidedBy>>

(* handleCallback: resolveApproval updates the row if it is pending.  The    *)
(* grant of an "always" is inserted with a customer for a user and refused   *)
(* by its foreign key, which is only logged.                                 *)
HandleCallback(b) ==
    /\ Handling(b, "press", "handle")
    /\ LET a == inbox[bots[b].last].prompt
       IN  decidedBy' = [decidedBy EXCEPT ![a] = IF @ = 0 THEN bots[b].last ELSE @]
    /\ Finished(b, "done")
    /\ UNCHANGED <<inbox, confirmed, linkTokens, links, prefs>>

-----------------------------------------------------------------------------

BotHandles(b) ==
    \/ GetUpdates(b) \/ TakeUpdate(b) \/ HandleFails(b)
    \/ StartSelect(b) \/ StartCommit(b) \/ HandleUnlink(b) \/ HandleCallback(b)

BotNext ==
    \/ \E update \in Updates : Send(update)
    \/ \E saved \in Saved : SavePrefs(saved)
    \/ \E a \in Prompts : DecideElsewhere(a)
    \/ \E t \in LinkTokens : TokenExpires(t)
    \/ \E b \in Bots : BotStarts(b) \/ BotCrashes(b) \/ BotHandles(b)

BotSpec == BotInit /\ [][BotNext]_botVars

(* The loop of a process that runs goes on, and a poll succeeds in the end.  *)
BotFairness == \A b \in Bots : WF_botVars(BotHandles(b))

BotFairSpec == BotSpec /\ BotFairness

-----------------------------------------------------------------------------
(* Properties                                                               *)

(* "This link is invalid, expired, or already used": although the token is   *)
(* read without a lock and marked without a condition, one that was passed   *)
(* on links one chat only, because both loops go through the updates in the  *)
(* same order and none is skipped before it has been handled - unless one    *)
(* loop failed to handle it and is ahead of the other one from then on.      *)
TokenLinksOneChat ==
    \A t \in LinkTokens :
        \/ \A c, d \in linkTokens[t].linked : c = d
        \/ \E i \in DOMAIN inbox :
              inbox[i].kind = "start" /\ inbox[i].token = t /\ results[i] = "failed"

(* Of the buttons pressed for one approval the first one decides, unless     *)
(* handling it failed: no delivery again, restart or second loop lets a      *)
(* later one overtake it.                                                    *)
FirstPressDecides ==
    \A a \in Prompts : decidedBy[a] \in UpdateIds =>
        \A i \in 1 .. decidedBy[a] - 1 :
            inbox[i] = inbox[decidedBy[a]] => results[i] = "failed"

(* However often processes restart in between, once one keeps running every  *)
(* update that was sent is handled.                                          *)
EveryUpdateHandled ==
    (\E b \in Bots : <>[]bots[b].running) =>
        \A i \in UpdateIds : i <= Len(inbox) ~> results[i] # "none"

=============================================================================
