----------------------------- MODULE MCPlatform -----------------------------
(***************************************************************************)
(* Instances for TLC of parts that share no state: Minting,                  *)
(* OAuthConnections, TelegramBot, Proxy, Members, Passkeys, Spans,           *)
(* AuditArchive and the two halves of CloudConnections, which share only the *)
(* row.  Their product would show nothing more than each alone, so a         *)
(* behaviour is one of one part, and the others stay as they are initially.  *)
(***************************************************************************)
EXTENDS Minting, OAuthConnections, TelegramBot, Proxy, Members, Passkeys,
        CloudConnections, MCSpans, AuditArchive

VARIABLE part

platformVars == <<mintVars, oauthVars, botVars, proxyVars, membersVars, passkeyVars,
                  cloudVars, spansVars, archiveVars, part>>

(* A user who saves the form with Telegram off.                             *)
MCSaved == {[chat |-> NoChat, enabled |-> FALSE]}

PlatformInit ==
    /\ MintInit /\ OAuthInit /\ BotInit /\ ProxyInit /\ MembersInit /\ PasskeyInit
    /\ CloudInit /\ SpansInit /\ ArchiveInit
    /\ part \in {"minting", "oauth", "bot", "proxy", "members", "passkeys",
                 "creds", "probes", "spans", "archive"}
    /\ part # "minting" => agentRow.approved
    /\ part # "members" => Owners = Users
    /\ part # "passkeys" => counts

PlatformNext ==
    /\ \/ part = "minting" /\ MintNext
       \/ part # "minting" /\ UNCHANGED mintVars
    /\ \/ part = "oauth" /\ OAuthNext
       \/ part # "oauth" /\ UNCHANGED oauthVars
    /\ \/ part = "bot" /\ BotNext
       \/ part # "bot" /\ UNCHANGED botVars
    /\ \/ part = "proxy" /\ ProxyNext
       \/ part # "proxy" /\ UNCHANGED proxyVars
    /\ \/ part = "members" /\ MembersNext
       \/ part # "members" /\ UNCHANGED membersVars
    /\ \/ part = "passkeys" /\ PasskeyNext
       \/ part # "passkeys" /\ UNCHANGED passkeyVars
    /\ \/ part = "creds" /\ CredsNext
       \/ part = "probes" /\ ProbesNext
       \/ part \notin {"creds", "probes"} /\ UNCHANGED cloudVars
    /\ \/ part = "spans" /\ SpansNext
       \/ part # "spans" /\ UNCHANGED spansVars
    /\ \/ part = "archive" /\ ArchiveNext
       \/ part # "archive" /\ UNCHANGED archiveVars
    /\ UNCHANGED part

PlatformSpec == PlatformInit /\ [][PlatformNext]_platformVars

=============================================================================
