# Nomos in TLA+

Nomos authorizes what AI agents do. An agent holds a UCAN, a signed grant of commands;
a **policy decision point** (PDP) decides each of its calls from the UCAN and the
customer's Cedar policies, and a **control plane** mints the UCANs, keeps policies,
revocations and approvals, and proves afterwards what was decided. This directory
specifies the parts of the two services that a wrong interleaving, a crash or a stale
read could break, checks them with TLC on small instances and proves the central
invariants with TLAPS for instances of any size.

- [The system](#the-system)
- [What is modelled](#what-is-modelled): [step-up approvals](#step-up-approvals),
  [revocation](#revocation), [the audit log](#the-audit-log), [delegation](#delegation),
  [grants and bundles](#grants-and-bundles), [the policy cache](#the-policy-cache), [the proxy](#the-proxy),
  [agents and minting](#agents-minting-and-usage), [OAuth connections](#oauth-connections),
  [the Telegram bot](#the-telegram-bot), [intent envelopes](#intent-envelopes), [members](#members-and-invites),
  [passkeys](#passkeys), [cloud connections](#cloud-connections), [spans](#spans), [the archive](#the-audit-archive)
- [Runs](#runs), [proofs](#proofs), [where code and docs disagree](#where-the-code-disagrees-with-itself)
- [What is not modelled](#what-is-not-modelled), [plan](#plan)

To check a run: `tlc -config Approvals.cfg MCApprovals.tla`; to check the proofs:
`tlapm StepUp_proofs.tla`. `PROJECT.json` lists the runs, maps each definition to the
lines it stands for, and gives for each property a mutated definition that TLC finds
to violate it.

## The system

```
  agent ── SDK / MCP server ──POST /v1/authorize, /v1/proxy──▶ PDP ──▶ adapters (GitHub, Slack, clouds, ssh …)
                  │  ▲                                          │ ▲
                  │  └─ poll GET stepup/:id                     │ │ pushes: refresh-revocations, refresh-policies
                  │                                             ▼ │
                  └──mint-child-ucan──▶  control plane  ◀── bundles, revocations, step-up create/get/consume
                                          │   ▲    ▲ 
      operators ── dashboard (tRPC) ──────┘   │    └── Telegram bot (long poll)
                                              │
                           Postgres: agents, ucan_issues, revocations, push_approvals,
                           audit_events, audit_roots, oauth_connections, usage_counters …
```

The control plane is one Node process over Postgres; there may be several PDPs, each with
its caches in memory. Handlers interleave at every `await`. Nearly all updates are
single statements outside of transactions, so what a handler has read may be stale when it writes.

| Component | State | Operations | What is hard | What makes it correct |
|---|---|---|---|---|
| Step-up approvals (`services/stepup/*`, `trpc/routers/stepup.ts`, `routes/internal.ts`) | `push_approvals` rows | create with dedup and refresh, approve (mints a cosigner UCAN), deny, lazy expiry, poll, consume | two operators and Telegram decide one row; the row is read before an LLM call and written after; retries race for the claim | an approval lets one request through, the one that was approved; a decision stands; every call gets an answer |
| PDP routes (`routes/authorize.ts`, `routes/proxy.ts`) | calls in flight | authorize, proxy | state is read from caches and used after awaits; the claim commits before the decision; the upstream may execute a request and its answer be lost | nothing passes without a valid chain, a policy and, where asked for, a cosigner; what is executed is executed once, on the record |
| Revocation (`cache/revocations.ts`, `services/revocation-publisher.ts`, `trpc/routers/ucans.ts`, `agents.ts`) | `revocations` table, a set per PDP | revoke, push, sweep, warm-up, discovery | lost and late pushes, overlapping fetches, restart with an empty set | a revocation is enforced within a known time and never undone |
| Audit emitter (`audit/postgres-emitter.ts`, `postgres-writer.ts`) | last hash per customer, pending batch, `audit_events` | emit, hydrate, flush | emits that overlap, crash with a batch in memory, failed INSERT | the rows of a customer are one hash chain but where emits overlap, and a crash loses what no row refers to |
| Audit roots and proofs (`services/audit-roots.ts`, `trpc/routers/audit.ts`, `packages/audit-verify`) | `audit_roots` | sign, prove, verify | roots signed while rows are unflushed | a proof verifies if and only if the root commits to the row, by the branch the scan takes |
| Delegation and decision (`packages/ucan`, `packages/core/src/decide.ts`, `services/ucan-mint*.ts`) | `ucan_issues` | mint, mint child, validate chain, decide | chains are put together by the caller | no chain gives more than each of its members |
| SDK and MCP server (`auth-guard.ts`, `run-guarded.ts`) | a call in flight | wait for approval, retry with the cosigner | deadline against a late approval | each call ends |
| Grants and policies (`services/bundle.ts`, `grants/*`, `packages/core/src/decide.ts`) | `agents`, `policies`, `agent_policies`, `agent_grants` | map, suspend, remember, revoke; generate the bundle | five reads on five connections; two decisions remembered at once | the PDP decides by a state the tables had; what is remembered is what was decided |
| Policy cache (`cache/policies.ts`, `services/policy-invalidator.ts`) | a bundle per PDP and customer, a debounced push | push, sweep, warm-up, first call | refreshes without a shared fetch, applied in any order; a debounce that never ends | a policy change is enforced within a known time |
| Agents and minting (`trpc/routers/agents.ts`, `routes/mint-*.ts`, `api-keys.ts`, `services/usage.ts`) | `agents`, `ucan_issues`, `api_keys`, `usage_counters` | create, suspend, delete, mint, count | a mint between delete's list and its revocations; read, then upsert | a deleted agent has no live UCAN; the cap holds |
| OAuth connections (`oauth/*`, `routes/oauth.ts`, `services/oauth-refresh.ts`, `oauth-sweep.ts`) | `oauth_connections`, state nonces | connect, refresh, sweep, disconnect | two refreshes of a rotating token; callbacks sent twice | a connection keeps the newest tokens; a nonce is good for one exchange |
| Telegram bot (`services/notify/telegram-bot.ts`) | chat links, start tokens, update offset | link, unlink, decide | the offset moves before the update is handled; two loops while a release replaces another | a token links one chat; no press is lost or overtaken |
| Intent envelopes (`routes/intent.ts`, `services/envelopes.ts`) | `envelopes`, approvals for them | state an intent, approve, revoke | one approval covers several calls | what is minted lies inside an envelope |
| Members and invites (`trpc/routers/members.ts`, `invites.ts`, `packages/rbac`) | `memberships`, `org_invites` | change role, remove, invite, revoke, accept | check and write in separate statements | an organization keeps an owner; an invite is used once |
| Passkeys (`auth/passkey-plugin.ts`, `services/stepup/webauthn.ts`) | challenges, credentials and their counters | register, login, cosign | an assertion presented twice; counters read early and written late | an assertion is used once; counters rise |
| Cloud connections (`routes/cloud-internal.ts`, `cloud/creds-cache.ts`, `workers/cloud-verify-poll.ts`) | `cloud_connections`, cached session credentials | create, update, disconnect, call, probe | a call that loaded the old configuration caches credentials after the disconnect | old credentials end in known time; a blip breaks nothing |
| Spans (`services/spans.ts`, `trpc/routers/_deriveSpanTree.ts`) | `agent_spans` | ingest, derive the action graph | spans come late, twice or not at all | the graph is a forest that flows forward |
| Audit archive (`workers/audit-archive.ts`) | one object per hour | tick, read, upload | late rows, failed ticks, two workers | an object only grows |
| Notifications, adapters, Cedar, crypto, policy builder, chain approvals and swarms, CLIs, egress proxy, dashboard | rows, keys or none | I/O, pure functions | | see [what is not modelled](#what-is-not-modelled) |

`PROJECT.json` has the same list with files and status, and 40 hazards, each at the line
where it bites and with the properties that watch it.

## What is modelled

| Module | Models |
|---|---|
| `StepUp` | calls, retries, dashboard sessions and Telegram over `push_approvals` |
| `ApprovalLifecycle` | what approvals promise: asked, decided once, used once |
| `Revocation` | table, pushes, and the set of each PDP with boot, sweep, crash, discovery; in real time |
| `RevocationView` | what a PDP's set promises: it is what the table has held at some time, that time only moves on, and only the end of the process loses it |
| `AuditChain` | the emitter with its hydration and batches, and the table |
| `AuditProof` | composes `AuditChain` with the root signer, the proof and the verifier |
| `Delegation` | minting, child minting, chain validation and the decision up to Cedar |
| `GrantBundle` | the tables behind the policy bundle, its five reads, the rules rendered from them, and what `authorize` makes of them |
| `PolicyCache` | how an edition of the bundle gets to a PDP; in real time |
| `Proxy` | `/v1/proxy` from the read of the caches to the upstream's answer |
| `Minting` | one agent's status, API keys, mints, usage counter and deletion |
| `OAuthConnections` | one account's rows, callbacks and refreshes, against a provider that rotates tokens |
| `TelegramBot` | updates, the loops of two processes, links, start tokens, presses |
| `IntentEnvelopes` | `/v1/intent`, envelopes and the approvals that make them |
| `Members` | memberships and invites of one organization |
| `Passkeys` | challenges, assertions and the counter of one passkey |
| `CloudConnections` | one connection, its cached credentials, its verify poll; in real time |
| `Spans` | receipts, spans, ingestion and the parents of the action graph |
| `AuditArchive` | the hourly worker of two processes and its objects |
| `MC*` | instances for TLC: constants and symmetry |
| `*_proofs` | theorems and their proofs |

`MCApprovals`, `MCProgress`, `MCGrants`, `MCPlatform` and `MCCaches` each hold several modules that share no state. Their product would
only multiply the states of one by those of the others, so a variable `part` is chosen initially, a behaviour is one of
that part, and the others stay as they are; the properties of all are checked in one run. What the
parts do share is composed elsewhere: the claim and the cosigner in `StepUp`, the bundle and the set in
`Proxy`, which takes their contents and changes as given.

An action is the code between two awaits; a `pc` (or `status`) field says at which await a
handler is. Queries are atomic, and a handler's local variables are fields of its
record. Throughout, hashes and signatures are sound: a CID, a hash or a JWT is
the value it stands for.

### Step-up approvals

A call that Cedar denies but would allow with a cosigner is answered with a step-up. The
MCP server's `runGuarded` waits for the operator and retries with the
cosigner UCAN that the approval minted; the PDP checks it, claims the approval
and decides.

| Variable | Code |
|---|---|
| `approval` | rows of `push_approvals`; `Absent` until inserted. `jwt` is `cosignerAttestationJwt`, `used` is `usedAt` |
| `call` | a `runGuarded` with the PDP and control plane handlers it waits for. `seen` is the row it has read and later the id it polls, `at` the time of the read |
| `retry` | an authorize or proxy request that carries a cosigner: `call` is the call whose UCAN it presents, `target` the command and resource it asks for, which need not be those of the call |
| `session` | a `stepup.approve` mutation between the read of the row and the write |
| `signed` | history: the cosigners ever written to a row |
| `revoked` | the PDP's set, fresh or stale; that it is right is `Revocation`'s subject |

`CreateSelect` is the lookup of a pending row (reuse it if it is live, remember it if it is expired),
`CreateRefresh` the update by id of the expired one after the risk summary's await,
`CreateInsert` the insert under the partial unique index, and `CreateFail` any error.
`Poll` and `PollTimeout` are `waitForApproval`; an expired row is answered as `expired` though it is
still pending in the table (`get.ts`). `ApproveRead`/`ApproveWrite` are the two ends of
`mintCosignerForApproval`: the write is by id, with no condition on the state. `Deny` is
conditional, `TelegramDecide` is conditional but looks at no expiry. `StartRetry`, `FetchApproval`,
`Consume` and `Decide` are `validateCosigner`, the claim and `decide`.

Safety: `SingleUse` (one approval, one request), `AllowedWasCosigned` (what passed was
approved by passkey for the same UCAN and command, and its row still says approved),
`OnePendingPerTarget`, and `DecisionStands`: an approval is never withdrawn, even by the refresh of a row read as
expired, and a denial gives way only to the write of a passkey approval that had read the row before it was decided.
That no decision is ever replaced (`DecisionFinal`) is not so: `StepUpOverturned.cfg` has the denial that is overwritten.
`ExactRequest`, that what passed is the request the operator saw, is what the code's comments promise; a cosigner names no
resource, and `exact_request` refutes it.
Liveness: `CallAnswered`, `RetryAnswered`.

*Fairness* (`FairSpec`): handlers, polls and retries that have begun go on, which Node's event
loop and the timeouts of the SDK justify. Nobody has to start a call, decide it or press a
button: the properties hold because `PollTimeout` ends a call that nobody answers.

*Bounds.* `Approvals` has as many rows as `Calls`, since a call inserts at most one; so the
supply never runs out. Two calls for the same target with different UCANs meet on a row, two
retries race for a claim, two sessions race for a decision: the properties speak of pairs. Retries may ask for three targets: the one that
was approved, another resource of its command, and another command. One UCAN may be revoked (`Revocable`), one stays good.
`MaxTime` 1 with lifetimes of 1 has rows live, expired and refreshed. Rows, retries and
sessions are symmetric in `approvals`; `progress`, with its liveness, has one session, one target, one UCAN and no symmetry.

*Abstractions.* The policy bundle is fixed while a call waits; the cosigner's command prefix is
equality, for the cosigner is minted for the row's command; the WebAuthn ceremony is a
precondition of `ApproveRead`; rows that intent envelopes create as approved are left out, and so are
the grants and policies that "remember" writes.

### Revocation

`ucans.revoke` and `agents.delete` insert rows and push to every PDP. A PDP
keeps a set per customer, refreshed by fetching the table: at boot before it listens, on a
timer, and on a push; the last two share one fetch in flight.

| Variable | Code |
|---|---|
| `revoked`, `age` | the table, and the time since each row, up to `Old` |
| `push` | the control plane's request for each UCAN and PDP |
| `mode`, `known` | the process; whether `knownCustomers` has the customer |
| `cache`, `boot`, `inflight` | `store`; the warm-up's fetch; the entry of the `inflight` map |
| `sweepIn` | time until the interval fires |
| `versions` | history: what the table has held |
| `failing` | whether requests may fail, and the customer be new to a PDP that boots; chosen initially |

A fetch is sent, reads the table (`ServeBoot`, `ServeRefresh`), and is applied (`BootDone`,
`RefreshDone`) or fails. Time is ages and countdowns, so the state space is finite without a bound
on the clock; `Tick` may not pass a timer that is due, nor a fetch of age `Latency`.

`EnforcedInTime`: if nothing fails, a listening PDP denies a UCAN once `Sweep + 2 * Latency` have
passed since its revoke. The bound is tight (with one unit less TLC finds a violation): the revoke just
misses a fetch's read, a sweep that fires before the fetch ends joins it, and the next sweep's
fetch is slow. `NeverUnrevoked`: no older answer replaces a newer one, and no failed fetch clears the set. `ImplementsView`: what a PDP denies is
at every moment what the table held at some time, that time only moves on, and nothing but the end of the process takes it back. Both hold because
refreshes share their fetch and the warm-up is over before the first sweep.
`EventuallyEnforced`: with failures, crashes and late discovery a PDP that from some time on
stays up enforces every revocation for ever.

*Fairness*: time passes, processes boot, timers fire, discovery runs (weak); a fetch that
is tried again and again is served and applied in the end (strong, for each try may fail). Pushes are
not fair: the sweep suffices.

*Bounds.* `Sweep` 2 and `Latency` 1 are the smallest with which fetches overlap sweeps and
end before the next one. `Latency < Sweep` is an assumption on the environment, for no client
timeout enforces it; `REVOCATION_REFRESH_MS` is 5 s. One PDP, since PDPs share nothing but the table,
and two UCANs, revoked together or apart; one customer, since caches are maps by customer.

### The audit log

Each decision is an event that carries the hash of the customer's previous event. The emitter
takes that hash from memory, or, after a start, from the newest row; queues the event and
writes batches. A worker signs the newest row as a root; `audit.proof` returns the rows
from an event to the root; `audit-verify` checks them.

| Variable | Code |
|---|---|
| `status` | each event: emitting (`waiting` for the hydration, `chaining` with the hash in hand), `pending`, `writing`, `stored`, or `lost`, `dropped`, `failed` |
| `ts`, `prev` | its timestamp and `prev_hash` |
| `last` | `lastHashByCustomer` |
| `hydrating`, `found` | the shared promise and what its query has read |
| `root` | the newest row of `audit_roots` |

`emit` is two steps, for it awaits the hash even when it is cached: emits overlap, those that wait for one hydration all get the same
hash, and what is chained while another event is in hand forks the chain. That a single PDP's rows are "one chain" (`Linear`) is therefore refuted by
`audit_fork`. What holds with any overlap: `ForksByOverlapOnly` (no event is chained to a hash which an emit that was done before has taken, so crashes,
hydrations, dropped batches and earlier forks never fork it), and `CrashLosesTail` (no row refers to an event that a crash lost).
`ProofVerifies`: the proof of a row that a root was signed after verifies if and only if `prev_hash` leads from the root's row to it by the
oldest branch of every fork between them, and, for a customer with a genesis anchor, the row is the first of all: proofs begin at
their event, and the verifier wants the genesis hash there.
`Proof` goes through the times from 0 on and takes the row of each, as `audit.proof` goes through the rows by `ts`.
`EmitSettles`: each emit ends as a row, or as lost, dropped or failed.

*Fairness*: queries end, the interval and the size trigger flush. Agents need not emit.

*Bounds.* Four events (three for `EmitSettles`): two that fork the chain, one on the older branch and one on the younger; or two before a crash, one that re-hydrates and one after it. One customer of
one PDP. Events are one millisecond apart: rows of the same millisecond, which `hydrate` and
`audit.proof` order arbitrarily, are not modelled. An INSERT in flight when the process crashes
has taken effect or has not, as the run chooses. Deadlock is not checked, since
the events are used up.

### Delegation

The control plane mints root UCANs and, for an agent that presents a chain, children signed with that
agent's key. The PDP accepts any chain from a trusted root whose adjacent members attenuate.
Commands and scopes are sequences of names, and one grants what it is a prefix of; a
UCAN's number is its CID.

`Presented` is every sequence of issued UCANs up to `Depth`, in any order: chains are
the caller's. `Contained`: what is allowed with a chain is in the command of every member, and in
the scope of every member that no member without a scope follows. (`ScopeContained`, without the exception, is
what the tests and docs say; `DelegationScope.cfg` refutes it.)
`MintedIsUsable`: what the control plane mints the PDP accepts, until it expires or is revoked: minting
checks what the PDP will check.

*Bounds.* Three UCANs make a root, a child and a grandchild, or two roots and a child that goes with
either; `Depth` 3 lets all of them into a chain. One revocation, one tick of the clock with lifetimes 1 and 2: a parent
that expires before or with its child. Agents are symmetric. Deadlock is not checked, because UCANs and
time run out.

*Abstractions.* Signatures, Cedar, agent status and clock skew are left out; constraint objects,
whose keys and verbs `constraintCovers` compares one by one, are nested scopes. The control plane and
the PDP use the same depth (the proxy passes none, so it takes the default of `decide`). The control
plane trusts the chain's root as the PDP does.

### Grants and bundles

`generateBundle` reads the customer's agents, policies, mappings, grants and step-up rows in one `Promise.all`, each
statement on a connection of its own, and renders Cedar rules; `authorize` gates the agent, asks
Cedar, and asks Cedar again with a cosigner.

| Variable | Code |
|---|---|
| `agents`, `policies`, `mapped`, `grants` | the tables; a policy's text is a set of rules |
| `tx` | each session's `upsertGrant` transaction (READ COMMITTED) with the rows its UPDATE holds |
| `bundle`, `start` | what the five statements have answered; what they would have answered together at the start |

A rule is its effect, the agent and the resource it names, and whether it asks for a cosigner. `Render` and
`Authorize` translate the renderers and the decision; Cedar itself is `Permitted`: some permit, no forbid.

`TornBundleDecides`: a bundle that one change overtakes allows what it would have allowed before the change or after it.
Agents that the change deletes or restores are the exception: their row may be read on the one side and the forbid
rules mapped to them on the other. A delete that commits after the row was read, and before the mapping is joined with
the agents that are not deleted, leaves an active agent without the rules that forbade it something, and the PDP allows what
neither side does. `AlwaysMayAsk`: however many changes overtake it, a bundle leaves no agent that may call without
the step-up baseline. `GrantLostByHandOnly`: no overlap of remembered decisions takes an agent its last grant, because
the UPDATE of the second transaction waits for the first and then skips what that has revoked (`TxLock`): the rows it revokes are those of its own
snapshot, and the one that the first transaction has inserted is not among them, so both new rows stay active. That is one of the two ways
to two active grants; the other is that neither finds an active row. `DuplicatesByOverlapOnly` says that there is no third: a new grant is its agent's only active one
unless its transaction was overtaken by another's between its look at the active rows and its commit.
`RememberedDenyDenies` is what `stepup.deny` says of "remember"; `GrantDeny.cfg` refutes it.

*Bounds.* Two agents, so that a rule about one can reach the other; two resources of which one can be
remembered; one policy row with a text that permits or forbids; an old grant or a mapped policy to begin with; two changes with one that overtakes; two sessions and
three grants, so that a grant is superseded twice. Changes and rows are used up, so deadlock is not checked.

### The policy cache

A bundle is the number of the last change in it. `Change` commits one and restarts the countdown of the pending push (or announces nothing: `agents.update`,
`delete` and others never call the invalidator); `PushFires`, `RefreshFires`, `LazyFetch` and the boot each start a fetch of their own; `FetchDone`
replaces the bundle by the answer, whatever came before it.

`FreshInTime`: while nothing fails, a change is in the bundle of a listening PDP once
`RefreshEvery + 2 * FetchTime` have passed, though pushes may be starved by their debounce and an older answer may
overwrite a newer one. `EventuallyFresh`: with lost pushes, failed fetches and restarts of either side, the newest bundle is
held in the end and for good.

*Fairness*: as for revocations. Pushes are not fair. *Bounds*: a sweep of two, a debounce and a latency of one
are the least at which a push is starved between two sweeps, and two fetches at once the least at which one overtakes another; three editions, so that an answer
can be older than the one before it. One customer and one PDP.

### The proxy

`Proxy` takes the bundle's verdict about a leaf UCAN, the revocation and the claim of an approval as given and changing at any moment
(`PolicyArrives`, `RevocationArrives`), and models what one request does with them: lazy refresh,
cosigner validation, claim, decision, step-up request, audit, and then the upstream of its kind: a cloud call through the control plane, an OAuth
provider with one refresh and retry after a 401, or a local file or ssh command.

| Variable | Code |
|---|---|
| `policy`, `leafRevoked` | what the caches say of the request now |
| `proxied` | each request: at which await it is and what it has read |
| `claimant` | who claimed the approval the requests carry |
| `recorded`, `executed` | history: allows the emitter took, executions by the upstream |
| `chances` | history: the verdicts a request could have met at some moment while it was served |

`ExecutedWasAllowed`: what is executed was allowed by the caches at one moment while the request was served, with
the approval where it needs one. `ExecutedOnceOnRecord`: the upstream executes a request once at most, after its allow was
recorded, and never when the agent is told that it was refused; a lost answer is an error and is not retried.

*Bounds.* Two requests share one approval. *Abstractions.* Whether a request is malformed, out of its scope or destructive, and
whether a provider answers, refuses the token or nothing, is chosen.

### Agents, minting and usage

One agent: its status and connection, its API keys, `mint-ucan` with a key, `mint-child-ucan` by a parent, minting
from the dashboard, and `agents.delete`, each statement a step. `DeleteLeavesFew`: when a delete is done, a UCAN is still valid only
if its mint had read the agent before and inserted after the list, or if a parent minted it, for the child's status is read by
nobody. `CapHolds`, which the comment above `increment` promises, is refuted by `usage_cap`:
the counter is read in one statement and raised in another, and what runs at once passes the cap together. By how far is the
theorem `CapPassed`: by less than the number of requests that run at once.
*Bounds*: two requests, a cap of 1 and requests for up to two commands, of which one UCAN is inserted.

### OAuth connections

One account of a provider that rotates refresh tokens and accepts only the newest (external). A token is the n-th after a consent.
Callbacks exchange, select and write; refreshes load, are answered, look whether the row's token has
changed, and write; disconnects delete. `StoredTokenIsAccepted`: a row at rest holds a token the provider accepts, unless an answer to its refresh was
lost or refused. `RowsFromOverlapOnly`: an account has two rows only if two callbacks overlapped. `NoncePerExchange`: a callback that
is sent again exchanges nothing. *Bounds*: two callbacks and two refreshes at once, three consents of two tokens each, three rows.

### The Telegram bot

Telegram keeps updates in order until a poll asks for later ones (external). A loop takes a batch, handles its updates one after the
other and moves its offset, in memory, before each. Two processes overlap during a release. `TokenLinksOneChat`,
`FirstPressDecides` and `EveryUpdateHandled` say that redelivery and overlap do no harm, except by a handling that
failed, which is never repeated. *Fairness* (`BotFairness`): a loop that runs goes on; processes need not start.
*Bounds*: two loops, two chats, one start token, one prompt, two updates.

### Intent envelopes

`/v1/intent` mints silently inside an envelope and asks for a step-up outside, or when an action is risky. `PendingCanBeApproved` is
refuted by `intent_dead_end`, the only run of this module: the request is stored without a UCAN to cosign, and approving it needs one, so everything
behind an approval of an intent is unreachable in the code as it is. The module models it as written, and the theorem
`IntentMintsNothing` gives the extent: no sequence of intents and decisions ever creates an envelope or mints inside one.

### Members and invites

Requests read, count and write in separate statements. `OwnerLostByOverlapOnly`: the last owner is lost only by a request that
another one overtook between its count and its write. `InviteBringsOnce`: an invite brings its user in more than once only by
accepts that overlap or fail half-way. *Bounds*: two users, two requests, one invite, three joins. Only an admin may be
invited: the roles that may only read members do not reach any of these routes.

### Passkeys

Login looks its challenge up and deletes it, reads the counter first and writes it last; step-up takes its challenge out of a map and writes under a row lock. `AssertionGivesOnce`: an assertion for a step-up cosigns once and
never logs in, and one for a login opens no more sessions than requests overlap. `CounterFallsByLoginOnly`: the stored
counter falls only through a login whose read is out of date. The authenticator (external) counts or emits 0.
*Bounds*: two requests, two challenges.

### Cloud connections

`OldCredsNotUsed`: no call is sent with expired credentials, nor with those of a configuration that was replaced or disconnected an
exchange and a cache lifetime (`ExchangeTime + CredsCap`) ago. The second summand is why `creds-cache.ts` has a cap; the first is there because
an exchange under way caches its result after the disconnect has cleared the cache. Calls take time
from `Tick` only while they exchange, for how long nothing in the code bounds. `BlipKeepsStatus`: a probe that fails in a way that may pass
leaves the status alone, unless the row was written since the probe read it. *Bounds*: two calls, two probes, three
configurations; a life of 5, a margin of 1 and a cap of 3, so that either ends an entry first.

### Spans

A receipt is the hash of the leaf UCAN and the request; a request that is made again has the same one. Its span is sent by the PDP and by the agent's MCP server, and stored once, if the audit event is in the table by then.
The action graph is derived for any part of the stored spans. `GraphFlowsForward`: from every span the walk along
parents ends at one that started no later, as long as the parents that are named started first. `PriorCallIsParent` (a span without a named parent follows the agent's last one) is refuted by
`span_repeated`. *Bounds*: three requests of two agents, one of which may be made again.

### The audit archive

`ArchiveShrinksByOverlapOnly`: an object loses rows only to a worker that read before another one uploaded the same hour. Time is in hours;
a tick may be missed. *Bounds*: two events, two workers, three hours.

## Runs

| Run | Shows | States |
|---|---|---|
| `approvals` (`MCApprovals`) | two calls with different UCANs, two sessions, Telegram, two retries for three targets: the safety of `StepUp`; chain, crash and proof with overlapping emits and failing queries | 2.6 M |
| `progress` (`MCProgress`) | one session, no Telegram: the services implement `ApprovalLifecycle`, and calls and retries are answered; two bot loops handle every update; every emit ends | 237 k |
| `grants` (`MCGrants`) | containment of every chain, and usability; torn bundles, the way to ask, and overlapping remembered decisions | 2.1 M |
| `platform` (`MCPlatform`) | minting, OAuth connections, the Telegram bot, the proxy, members, passkeys, cloud connections, spans and the archive | 1.7 M |
| `caches` (`MCCaches`) | revocations without failures in time, with failures the view and liveness; the policy cache | 240 k |
| `exact_request` (`MCStepUp`) | violated: a cosigner unlocks the request for another resource | |
| `audit_fork` (`MCAuditProof`) | violated: emits that overlap fork the chain | |
| `usage_cap` (`Minting`) | violated: concurrent requests pass the cap | |
| `delegation_scope` (`MCDelegation`) | violated: a scope is lost | |
| `grants_remembered_deny` (`MCGrantBundle`) | violated: a remembered denial allows | |
| `intent_dead_end` (`MCIntentEnvelopes`) | violated: an intent's step-up cannot be approved | |
| `span_repeated` (`MCSpans`) | violated: a repeated call loses its place in the graph | |

A violation run checks what a comment, a document or a test of the repository says; TLC's trace is how the
code departs from it. Three configurations are kept to reproduce others by hand:
`StepUpOverturned.cfg` and `StepUpForeignCosigner.cfg` (`MCStepUp`) and `RevocationAcked.cfg` (`MCRevocation`).

Type invariants are not among the runs' properties, since each module's is proved (see below).

## Proofs

| Theorem | Assumes | Argument |
|---|---|---|
| `StepUpTypeCorrect` | the constants' assumptions | `TInv` = `TypeOK` and `Referenced`: an id that a handler holds is a row's. The updates by id have no other guard, so without `Referenced` the types would not be inductive |
| `StepUpSingleUse` | | `ClaimInv`: a retry that is past the claim has claimed, its row is used, and no other retry has claimed the row. `used` is never reset, by re-signing neither |
| `StepUpAllowedWasCosigned` | | `CosignedInv`: every JWT that a call or a retry holds was signed; past the local check it fits the call, past the fetch its row is approved |
| `StepUpDecisionStands`, `StepUpDenialStands` | | the one write without a condition on the state is `ApproveWrite`, and `ApproveRead` takes up pending rows only: so what overwrites a denial was under way before it, and a denial that nobody is approving stays for ever |
| `StepUpOnePendingPerTarget` | | `PendingUnique`: only the insert makes a row pending, and the index guards it |
| `StepUpImplementsLifecycle` | `OneDecider`: one session, no Telegram | `MintPending`: the row of an approval in progress is still pending, so the update by id is a decision of a pending row; `ClaimInv` and `CosignedInv` make a decided retry an `Unlock` |
| `RevocationTypeCorrect` | | `TypeOK` is inductive |
| `RevocationImplementsView`, `RevocationNeverUnrevoked` | `Latency < Sweep` | `BootInv`: while a warm-up runs, no shared fetch does, as its age plus the countdown is a sweep's. `KnowledgeInv`: what a fetch has read and what the set holds are versions of the table, and a fetch that has read holds at least the set |
| `RevocationEnforcedInTime` | `Latency < Sweep` | where nothing fails (`~failing`, a premise of the property), `TimeInv` relates, for a revoked UCAN that is not in a set, its age to the fetches under way and to the countdown |
| `AuditTypeCorrect` | | `TInv` |
| `AuditCrashLosesTail`, `AuditForksByOverlapOnly` | | `ChainInv`: times along the clock, emits done in the order they began, batches in order, hydration only when nothing is in hand or queued; the last hash belongs to the newest event that is neither lost nor dropped, or to a dropped one, and what is in hand is chained to a hash that no event done since has had |
| `AuditAppendOnly` | | `ChainInv` has the batch being written newer than the table, and what is pending newer than the batch |
| `ProofTypeCorrect` | | `RootTyped`: only rows are signed, and rows stay |
| `AuditProofVerifies` | | `Table`, a consequence of `ChainInv`: rows have a `ts` each, and what comes before a row in the chain is older. So the scan by `ts` meets the chain from the event on in its order (`Follows`), takes the oldest row that continues it at each fork, and takes in the root exactly if the root's row leads back to the event along such rows (`Reached`) |
| `AuditVerdictStays` | | by `AuditProofVerifies` the verdict speaks of the event and the root only, and `AuditAppendOnly` leaves what both commit to: a branch that comes later is younger |
| `DelegationTypeCorrect` | the constants' assumptions | issued UCANs are never changed |
| `DelegationCitesAttenuate` | | `mintChildUcan` checks what `validateChain` will |
| `DelegationContained` | | up the chain from the leaf: the member nearest to the leaf that did not contain the request would be attenuated by one that does (`LeastNat`, `PrefixTransitive`) |
| `DelegationMintedUsable` | the constants' assumptions | `Begun`: a UCAN is in force from its mint on; along `Line`, from the root to the leaf, each member attenuates the last (`CitesAttenuate`) and expires no earlier than the leaf |
| `GrantTypeCorrect`, `GrantLostByHand` | | `GrantInv`: transactions hold active rows of their own agent, and no two hold the same row; so when one commits, the agent's other rows are either revoked by it or still active |
| `TornDecides` | | `TornInv`: each answer of a bundle was there at its start or is there now, and the two lie one change apart (`OneChange`). A change touches one table, or makes an empty policy and its mapping at once, and half of that says nothing or speaks of agents as all of it does |
| `GrantAlwaysMayAsk` | | an agent is in the step-up rows whenever it is in the table, and rows of `agents` never go away: the answer that has the agent comes with its baseline, whichever statement was first |
| `GrantDuplicatesByOverlap` | | a transaction about to insert that was not overtaken holds every active grant of its agent, for what others insert is marked on it, and what others revoke leaves fewer |
| `MintTypeCorrect`, `CapPassed` | the constants' assumptions | every request that has read the counter below the cap counts once: the counter plus those requests stays within the cap plus their number |
| `DeleteLeaves` | | a delete that has read its list has all UCANs in it but those of mints that it overtook and of parents |
| `OAuthTypeCorrect`, `NoncesPay` | the constants' assumptions | codes in exchange and codes exchanged are paid for by deleted nonces |
| `RowsFromOverlap` | | rows and the callbacks that found none are never more than the callbacks that were served at once |
| `StoredToken` | | the invariant follows the tokens of each consent: the provider's newest is with one callback, in one row, or in one refresh that has its answer, or the row is spoiled |
| `ProxyTypeCorrect`, `ProxyEnforces`, `ProxyRecords` | | `Serving`, one conjunct for each await a request can be at: what it has read was a verdict it met, what it has decided follows from that and from the claim, what it may send is recorded and has not been executed |
| `BotTypeCorrect`, `TokenLinks`, `FirstPress` | the constants' assumptions | `BotInv`: each loop goes through the updates in order and whatever lies behind it was handled, and a token is spent, or an approval decided, by the first update for it that did not fail |
| `IntentTypeCorrect`, `IntentMintsNothing` | some resource and some action | `DeadEnd`: all requests lack a UCAN, so none is approved, so no call has a cosigner that passes, so there is no envelope to mint inside |
| `MembersTypeCorrect`, `OwnerLost` | | `WritesKnowing`: a request about to take the role from an owner, and that nobody overtook, leaves another owner |
| `InviteBrings` | | `BroughtIn`: until an invite is marked as accepted, its uses are no more than the requests about to mark it and those that failed; from then on nobody starts to accept it |
| `PasskeyTypeCorrect`, `CounterFalls`, `AssertionGives` | | `Given`: what an assertion gave, and the verifications that may still give, by the purpose of its challenge; one for a step-up is in one hand once it has left the map |
| `CloudTypeCorrect`, `OldCreds`, `BlipKeeps` | | `CredsFresh`, `CacheFresh`: for how long a configuration has been gone and how long its credentials may still be held or cached add up to no more than an exchange and the cap. `SeenIsStatus`: a probe that was not overtaken has read the status there is |
| `PolicyTypeCorrect`, `FreshAlways` | the constants' assumptions | `FreshInv`: a change that an answer missed is younger than the answer; one that the bundle misses waits for a sweep that is near or for a fetch that was begun in time |
| `ArchiveTypeCorrect`, `ArchiveShrinks` | | `Archived`: an object has rows of its hour only, and a worker that nobody overtook has read all that the object holds |
| `SpansTypeCorrect`, `SpansFlowForward` | the constants' assumptions | a step to the parent is a step to a span that started earlier (`ParentBefore`), so the spans left to walk to become fewer at each step (`FewerBefore`), and the walk has come to its end when the steps are as many as the spans |

The theorems hold for every value of the constants that the named assumptions of the modules allow: any
number of rows, calls, sessions and retries, of PDPs and UCANs, of events, agents, policies, callbacks, refreshes,
users, invites, challenges, probes, polling loops, policy changes and workers, any `Depth`, cap, lifetime, sweep or latency.

Every invariant and every action property that a passing run checks is the subject of a theorem, and none assumes that requests do not
overlap; `StepUpImplementsLifecycle` alone assumes that one session decides. Three of them speak of recursive
functions: the `Line` of a UCAN, the walk to a span's root, and the scan of `Proof`. The library's induction theorems take an operator
as a parameter, which the provers cannot instantiate; that a non-empty set of numbers has a least one
(`NatLessThanWellFounded` and `WFMin`) needs none. From the least number at which something would fail follows both that a function with the
recursive equation exists, so that the one `CHOOSE` picks obeys it (`LineExists`, `Iterates`, `FollowsExists`), and what it
computes.

Only model-checked: liveness (`CallAnswered`, `RetryAnswered`, `EventuallyEnforced`, `EventuallyFresh`, `EmitSettles`, `EveryUpdateHandled`),
which rests on fairness and ENABLED, neither of which the provers handle; and the counterexamples.

## Where the code disagrees with itself

Found by a run (see `findings`):

1. `delegation_scope`: a child without a constraint loses its parent's (`decide.ts:136`).
2. `grants_remembered_deny`: a denial to remember is rendered from a preview that is a permit, and so allows
   what was denied (`services/grants/upsert.ts:40`).
3. `intent_dead_end`: `/v1/intent` stores its step-up without a UCAN, and approving needs one (`routes/intent.ts:174`).
4. `span_repeated`: a request made again has the first one's receipt, is joined with two audit rows, finds itself as its
   own predecessor and is left without a parent (`_deriveSpanTree.ts:134`).

5. `exact_request`: a cosigner "binds" to "the exact request the user approved" (`cosigner.ts:6-7`), but names neither the resource nor anything it
   follows from; the PDP compares command and UCAN, and lets the next request for another resource through (`cosigner.ts:107`).
6. `audit_fork`: "With a single PDP per env this is one chain so nothing gets filtered" (`audit.ts:105-106`); emits that overlap, the
   first ones after a start for example, fork it (`postgres-emitter.ts:111`), and `audit.proof` filters the younger branch out.
7. `usage_cap`: "concurrent callers can't double-spend the cap" (`usage.ts:89-94`), and they can (`usage.ts:95`).

Reproduced by a configuration that is run by hand:

8. `StepUpOverturned.cfg`: `mintCosignerForApproval` says it can "only sign pending approvals" (`cosigner.ts:84`), and
   overwrites a denial that commits between its read and its write (`cosigner.ts:129-137`).
9. `StepUpForeignCosigner.cfg`: a call that reuses another call's pending row is approved, and refused
   for a cosigner bound to the other UCAN (`create.ts:112-123`).
10. `RevocationAcked.cfg`: a push that joins a fetch in flight is answered 200 with the stale set
   (`cache/revocations.ts:48`).

Seen while modelling, and part of the modules unless noted:

- *Step-up.* Telegram decides rows that have expired (`telegram-bot.ts:264`), and approving a row past the window
  the dashboard shows still mints a cosigner (`trpc/routers/stepup.ts:306`).
  The claim is made "after all other validation succeeds" (`authorize.ts:317`), but before
  `decide`, so a retry that `decide` denies has spent the approval. The proxy asks `shouldForceStepUp` about the
  request as it came, not about the one with the cosigner it has validated and claimed, so a destructive cloud call
  is refused as `cosigner_required` all the same (`proxy.ts:751`; `CloudNotSent`).
- *Revocation.* A warm-up that outlasts a sweep could overwrite a newer set (`index.ts:114`); this is what `Latency < Sweep`
  excludes. `refreshOne` swallows errors, so a push is answered 200 though its refresh failed.
- *Audit.* A hydration that rejects stays in the map and rejects every later emit of the customer
  until a restart (`EmitRejected`), while the emitter's header speaks of losing "up to one batch".
  A dropped batch leaves a gap, for the last hash has moved on (`postgres-emitter.ts:145`); the root
  beyond the gap does not commit to the rows before it, and their proofs do not verify.
  A root signed while an event waits for its flush is younger than the event but does not commit to it;
  `audit.proof` picks it all the same. The proof of any event but the customer's first fails the check of a genesis anchor (`verify.ts:192`; the last conjunct of `Verifies`). A cloud call that was executed is answered 502 if the emitter rejects its report (`EmitRejected` in `Proxy`).
- *Archive.* An hour is archived by one tick or never: a failure is only logged, the first hour starts with the process, and a
  timer that drifts over the hour's end skips one. Rows that a PDP flushes after the tick are in no object.
- *Delegation.* A child's `prf` is never compared. Revoking a UCAN denies the chains that contain it, and not the
  UCANs minted under it, which go on under any other UCAN of the same agent that grants as much.
  The proxy does not pass its `maxChainDepth` to `decide`, and `authorize` does.
- *Grants.* Two decisions that find no active grant both insert one, though "at most one active grant is allowed per tuple"
  (`upsert.ts:31`), and so do two of which the second waits for the first (`DuplicatesByOverlapOnly`). What Telegram's buttons persist names the customer as granting user, which the foreign key
  refuses (`schema.ts:615`), while the message says it was remembered (not modelled).
- *Agents.* `agents.update`, `approveConnection`, `setMode` and `denyConnection` act on a deleted agent, and can restore it;
  none of `agents.*` invalidates the bundle. A delete that stops half-way leaves keys and UCANs valid (`DeleteAborts`). `mint-child-ucan` never looks at the child's status, nor
  `apiKeys.create` at the agent's.
- *Usage.* A refused body is counted, and a request for many commands counts as one.
- *Policy cache.* A steady stream of changes starves the push; the answer of an earlier sweep can undo a push until the next sweep.
- *OAuth.* Overlapping callbacks leave two rows of one account (`tokens.ts:123-137`, no unique index); a refresh whose answer is lost
  leaves a dead connection (`spoiled`).
- *Telegram.* `/unlink` says "No more approval prompts here", but the preferences that prompts are sent by keep the chat
  (`notify.ts:120-135`, `create.ts:183-226`). A loop is not stopped on SIGTERM. An unlink delivered again after a restart unlinks a chat that was told "Linked" meanwhile.
- *Intents.* Had its approval worked, its row would not be marked as used, so the same cosigner would make an envelope again after the first was revoked
  (`ValidateCosigner`). `purgeExpired` is called by nobody.
- *Members.* Two owners demote each other and none is left (`members.ts:49-57`), though `docs/RBAC.md:99-100` promises the protection of the last owner without condition; an invite that is revoked while it is being accepted still
  lets the user in; an admin may make owners.
- *Passkeys.* A login overwrites the counter with what it verified against an older one (`passkey-plugin.ts:237-240`), where step-up takes a row lock
  against just this.
- *Cloud.* Cached credentials are keyed by connection and scope, so agents share them, whichever of them has a federated identity; a change of the
  configuration does not clear them; a transient probe writes back a status it read earlier.
- *Spans.* A span that arrives before its audit event is flushed is refused and not sent again; the second span of a repeated request is never stored.
  A parent receipt need not be of a "prior span" (`_deriveSpanTree.ts:126`, comment at line 9), so repeated requests or skewed clocks can close a circle.
  The retention of captured prompts is a column that nothing acts on (not modelled).

## What is not modelled

- *Left out of the modules' components*: the adapters' translation and response sanitising, and which cloud action is destructive (choices in
  `Proxy`); prompts and reminders the Telegram bot sends; billing beyond the monthly counter; sign-up, sessions and passkey registration; creating and
  choosing organizations; the matching of hand-offs and the captured prompts of the action graph; Parquet and the place the genesis anchor is posted to.
- *Third party, taken to be sound*: Cedar, cryptography, WebAuthn, the cloud and OAuth providers, Telegram, Postgres (READ COMMITTED where it is used).
- *Pure functions and I/O without state of their own*: adapters, schema packs, redaction, policy builder, CLIs, the Python SDK, MCP tools, egress
  proxy. They account for most of the repository's lines, with the dashboard (a client of the tRPC routers), generated schemas,
  infrastructure and samples: a state machine has nothing to say of them.
- *Rows without races of interest*: chain approvals and swarms (their effects are a policy and a field of the span), notification
  preferences, API keys beyond `Minting`, and the file audit emitter of local development, a synchronous append.

## Plan

The order is that of what the PDP's decision depends on. The core (`StepUp`, `Revocation`, `AuditChain`, `Delegation`), the bundle and its
cache, agents, OAuth, the Telegram bot, the proxy and the parts around them are done. What is left:

1. Proofs: what a bundle decides when several changes overtake it, beyond `AlwaysMayAsk`; how many active grants an agent may have when more than two decisions overlap.
2. Several PDPs of one customer, whose emitters share a table but no last hash; and `StepUp` with the approvals that intent envelopes make, should these become reachable.
3. Swarms: a cascade of child mints and what a revocation in the middle leaves.
