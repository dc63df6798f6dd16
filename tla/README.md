# Verification of the PoRep Market tooling

TLA+ models of the command line tool in `src/` (client, storage provider and admin commands of the
Filecoin PoRep Market), TLC runs that check them on small instances, and theorems about them checked
by TLAPS. The models are about *processes and the chain*: every command of the tool reads the chain in
several calls, asks a human, sends one or more transactions with the wallet's nonce, waits for their
receipts, and may stop for good between any two of these. Nothing is kept between runs; re-running is
the only recovery. What can go wrong is therefore in the interleaving of runs, transactions of dead
runs, other users of the wallet, and the operators of the two markets, which is what the models keep.

## 1. Inventory

| Component | State | Operations | Interacts with | Hard parts | What makes it correct |
|---|---|---|---|---|---|
| Adoption of V1 claims (`cli/migration/client.py`, `service.py`) | none of its own; claims on the V2 adapter, the wallet's nonce | plan, preflight, confirm, send batch by batch, read back, report | V1 client contract, V2 adapter, wallet, node | concurrent runs, transactions of dead runs, evictions, postings closed midway | no claim given twice, report is true, re-run completes |
| `finish-migration`, `close-v1-deal` (`cli/migration/client.py`) | V1 rail, V2 state, posting, lockup, epochs | check, preflight, confirm, send, wait for the end epoch, settle | both markets, Filecoin Pay, admin | old checks at landing time, claims dropped by settlements, time | no stranded claim, no payment gap, settle not early, settled in the end |
| Sending (`contract_service.py`, `web3_service.py`) | nonce of the wallet | count reads, wait for pending, build, confirm, sign, send, receipt | node | non-atomic reads, evictions, same nonce twice | no nonce hole, clear means clear, waits end |
| `init-deal` (`cli/commands/client/init_deal.py`) | validator, approval, deposit, rail of a deal | three stages, each looked for before it is done | validator factory, Filecoin Pay, token permits | died sessions, expired permits, declined prompts | one deposit, "All done!" is true, re-run completes |
| Submission to Curio (`submit_ddo.py`, `curio_market_client.py`) | DDO deals at the SP | find endpoint, query status, submit, skip | SP's Curio, evidence adapter | lost answers, failed deals, two endpoints | one DDO deal a piece, every piece submitted |
| Piece sets (`piece_set_commitment.py`) | none | canonical order, commitment, proof | manifest, evidence adapter | odd layers, duplicates | each proof proves its piece only |
| CID conversion (`cid_converter.py`) | none | padding, height, v1 to v2 | manifest | boundaries | size implied equals size declared |
| Sector extension (`cli/migration/sp.py`) | sector expirations | required and target epochs, sptool runs | SP's node | margins, partial runs | sectors outlive what the V2 deal needs |
| Paginated reads (`contract_service.py`, `service.py`) | none | page by page reads | every contract | lists that change while read | no id of an adapter missed that was there throughout; of deals, no more than shift between two pages |
| Deposits (`deposit_for_deals.py`) | funds and lockups on Filecoin Pay | what is missing, deposit | Filecoin Pay | dead deposits and re-runs, withdrawals and lockups meanwhile | enough for the deals asked for, nothing twice |
| Proposals (`commands/utils.py`, `propose_deal*.py`) | none; the deals of the market | validate the manifest, read the adapter, hash, propose, compare | manifest server, market | the global adapter changes before the block | a wrong hash is told |
| Deal administration (`admin/terminate_deal.py`, ...) | none; the state of a deal | reject, terminate, finalize, set the adapter | market | the rail is set between reading and landing | what is to end does end |
| SPs and offers (`commands/utils.py`, `sp_registry*.py`, `admin/_utils.py`) | registry of SPs and offers, a database | register, update, create offers; pause, block, activate | SP registry, database | partial failure, re-run, edits | a re-run changes what differs and nothing else |
| Self update (`self_update.py`) | the checkout | fetch, compare, ask, fast-forward | git | the user works in the checkout meanwhile | what is updated is what was compared |
| Onboarding (`commands/sp/onboard_data.py`) | the SP's disk: downloads and the saved manifest | check, save, download with aria2c | manifest server, adapter, disk | killed writes and downloads, two terminals | who is told so has all pieces |
| Migration status (`cli/migration/status.py`) | none | reads of rails, deals, claims; pairing by claims | both markets, adapter | minutes between the reads | no deal is called lost that is not |
| Amounts (`cli/utils.py`) | none | decimal to wei and back, price of a sector | every command that sends tokens | doubles | what is sent is what was typed |
| Views, tokens, signers, CLI | none | wrappers | contracts | - | - |

`PROJECT.json` lists every component with its files and what is modelled of it, and under `hazards`
the places in the code where a test would hardly reach.

## 2. Modules

| Module | Models | Composes |
|---|---|---|
| `AdoptionLedger` | what adoption promises: a ledger of claims that only grows, by small batches of fresh claims of the right V1 deal, and a true report | - |
| `ClaimAdoption` | `client adopt-v1-claims`, runs as processes | implements `AdoptionLedger` |
| `NonceReads` | `get_address_nonce`, `ensure_no_pending_transactions`, `wait_for_pending_transactions`, call by call | justifies the atomic `Pending` of `ClaimAdoption` and `InitDeal` |
| `DealSetup` | what `init-deal` promises: deploy, fund once, open the rail | - |
| `InitDeal` | `client init-deal` and `sign_and_send_tx` with a prompt a transaction | implements `DealSetup` |
| `Migration` | `client finish-migration`, `client close-v1-deal`, activation, the V1 rail and time | uses the actions of `AdoptionLedger` for adoption and the end of `InitDeal` as one step (`Prepare`) |
| `AdapterReads` | `adapter_claim_ids` and its pages, against an adapter that changes between them | justifies the atomic reads of `held` in `ClaimAdoption` and `Migration` |
| `MarketReads` | `call_contract_paginated` and `get_all_deals`, against lists that grow and deals that change their state | - |
| `SubmitDdo` | `client submit-ddo`: accepted pieces, status queries, posts, re-runs | - |
| `PieceSet` | the commitment to the pieces of a deal, its proofs, and the checks of a fetched manifest | tells apart the pieces that `SubmitDdo` numbers |
| `ClientDeals` | proposals, `set-global-evidence-adapter`, deposits, withdrawals, terminations and finalizations of two wallets | takes the nonce of `NonceReads` as read in one step, `init-deal` and `submit-ddo` as one step each (`Progress`) |
| `Registry` | `admin register-db-sps`, `sp register-sp`, `sp register-offer`, the database and SPRegistry | - |
| `SectorExtension` | `sp extend-deal-sectors`, the sector check of `migration-status`, the terms adoption asks for | the time that `ClaimAdoption` leaves out |
| `SourceClaims` | `source_claims`: ids, claims, marks and bytes of a V1 deal, read one after the other | behind `QualifySource` and the plan of `ClaimAdoption` |
| `MigrationStatus` | `migration-status`, a read a step | reads what `ClaimAdoption` and `Migration` change |
| `OnboardData` | `sp onboard-data`, runs and the SP's disk | brings the pieces that `SubmitDdo` and `PieceSet` place |
| `Switches` | pause, unpause, block and unblock a provider, (de)activate an offer, allow a payment token | waits as `NonceReads` |
| `SelfUpdate` | the check for updates that every command begins with | - |
| `CidConverter` | `piece_cid_v1_to_v2` and what it is made of | names the pieces of `OnboardData` |
| `Amounts` | `to_wei`, `from_wei`, the price of a sector, through doubles | - |
| `Powers` | powers and lengths in bits, as recursive functions | used by `CidConverter` and `Amounts` |
| `Helpers` | one instance each of `AdapterReads`, `MarketReads`, `NonceReads`, `PieceSet`, `CidConverter`, `Amounts`, `MigrationStatus`, `SourceClaims` | side by side, not together |
| `Commands` | one instance each of `SectorExtension`, `OnboardData`, `SelfUpdate`, `Switches` | side by side, not together |
| `MC_*` | values for TLC | extend the modules |
| `ClaimAdoption_proofs`, `InitDeal_proofs`, `Migration_proofs`, `SubmitDdo_proofs`, `ClientDeals_proofs`, `Registry_proofs`, `Helpers_proofs`, `Commands_proofs` | theorems | extend the modules |

### ClaimAdoption and the code

A run is a record: its step `pc`, the pair it was given, and the local variables that matter later
(`rail` and the pair are the snapshot of `load_pair`, `todo` is `plan.extensions` not yet sent,
`batch`, `nonce`). Its actions follow `adopt_v1_claims` from top to bottom:

    LoadPair -> ReportComplete | Plan -> Preflight -> EnterLoop
             -> (NextBatch -> EnsureNoPending -> Sign -> Send -> Receipt -> Validate)* -> Progress

`Refused` is every early exit: `Fails` lists, per step, the check whose failure ends the command.
`EnsureNoPending`, `Sign` and `Send` are `sign_and_send_tx` inside `batch_confirmation`: a check that
nothing is pending, a second read of the latest count, a gas estimate that fails where the transaction
would revert, and the broadcast are separate steps, because other processes act between them. The chain
(`mempool`, `count`, `held`, `doubled`, `status`, `paying`, `term`) is modelled from how the code uses it.
`Accepts` is the adapter's answer; whether it refuses a claim that the same deal already holds cannot be
seen in this repository, so `AcceptsRepeats` covers both: with TRUE the adapter would take and count a
claim twice, and only the tool's guard prevents it. The byte check of the plan and of the readback
(`_check_registered_bytes`) is `BytesMatch`: sizes are positive, so sums match exactly when nothing was
counted twice.

`ReadbackOK` is all of `validate_batch_receipt`: the ids of the adapter, their bytes, and in the registry of
claims that each claim of the batch is still there and its term is the one asked for. For the last two, `term` has
of each claim whether it runs as V1 left it, was extended by a batch, or is gone (`Expire`, at any moment of a run). That a landed batch is never
told as lost or shortened rests on two facts about the Filecoin registry which this repository takes for granted:
an extension does not shorten a term, and a claim extended to the end of the V2 deal has years left, so that it
does not go between the block of the batch and its readback. Claims that are gone fail the plan, the preflight and the batch.

`QualifySource` stands for the read of the V1 deal, which fails the plan before anything is sent; how it is
read, with the health of the claims (missing, terminated, foreign) and the size check against the V2 request,
is `SourceClaims`. The term that an extension asks for is in `SectorExtension`. Abstracted: the
order of the claims within the plan (any set of the batch size may be next), and settlements of V1 that drop a claim while
the pair is being adopted: a V1 deal has `ClaimsOf` throughout, and none of them is marked as terminated while its rail is open. Such settlements are in `SourceClaims`, `MigrationStatus` and `Migration`.

### NonceReads and the code

One process runs one of the two functions (`mode`), a read a step; `Broadcast`, `Include` and `Evict`
are the rest of the world. `"refuse"` is the confirmed batch (`ensure_no_pending_transactions`, then
`get_address_nonce("latest")`), `"wait"` is `get_address_nonce("pending")`. Its invariant says the two
reads are as good as one, which is why `Pending` may be one step in the other modules.

### InitDeal and the code

A session walks through the stages `validator`, `deposit`, `rail`; each stage starts with
`wait_for_pending_transactions` (`Begin`, `Wait`), then a fresh read of the deal (`Skip` when the work is
done, `Refused` when the stage before it is missing), a prompt (`Ask`), for the deposit the permit
(`SignPermit`), and `sign_and_send_tx` in its prompting mode: `TakeNonce`, `Build`, `Send` or `Decline`,
`Receipt`. The order `TakeNonce` before the final confirmation is the code's, and is what makes two
sessions safe from each other: the second to answer has a used nonce. `permits` is the token's permit
nonce, `late` the processes whose permit is past its one hour. `Alone` are the deals that are worked on
in one terminal at a time; for others nothing is said of the number of deposits (two terminals may deposit
twice, and the code does not claim otherwise). Declining the *first* prompt of a stage
aborts the command and is covered by `Crash`.

Abstracted: token balances (enough), the two reads that compare the validator of the factory with
that of the deal (a mismatch aborts, and a re-run is as good as a crash), the dry-run mode.

### Migration and the code

A job is one of the commands: `LoadFinish`/`CheckFinish` are `finish_migration` up to its prompt;
`LoadClose` is the snapshot of `load_pair`, kept in the job (`notice` is the lockup period, `state` the V2
state of the snapshot), `CheckClose` is `_require_v2_replaces_v1` (a fresh read of the claims, the *old*
state), the notice check and the end epoch; `Preflight` is the `eth_call`; `Send`, `Receipt`, `SettleSoon`
and `WaitPast` the rest. Time is kept as `left`, the epochs until the end epoch of a terminated rail is past. The
others act at any time: adoption (by the ledger's action), `init-deal`, activation, the admin who
shortens a lockup, V1 settlements that drop claims (`Expire`), the end of either deal by its operators.

Abstracted: nonces (any set of transactions may wait and they land in any order, more than the wallet
allows), the snapshot's reads are one step (the V2 state is read first, and a state that was ACTIVE
stays so or ends), the client's Filecoin Pay account is funded, claims have one size.

### AdapterReads, MarketReads and the code

A page is one `eth_call`, a step of its own; between two pages the adapter registers ids and confirms
them (an id leaves the pending list, whose order changes in one of two ways the code cannot know, and is
appended to the confirmed list). `AdapterReads` keeps the ids read of the two lists as sets and a ghost
`known`, what the adapter held at the last page of the pending list. `ReadComplete` rests on three
things together: pending is read before confirmed, an id once read stays in the prefix or moves, and the
overlap of the two results is refused. `rescueDealAllocations`, which replaces ids, is not part of the
migration and left out. In `MarketReads` a read is of all deals, in creation order, or of an organization's, state by state in the
order of the codes, each list in pages. The code checks nothing after the read, and it does miss deals: one
that leaves a page that was read brings another there from a page that was not. `shifted`, a ghost, counts
those events, and `MissedOnlyByShifts` is what is left: a read lacks no more deals than were so shifted. The read by
states is what `sp get-deals` prints; `deposit-for-deals` reads in creation order. None
is missed in creation order, none in a list of one page, and none for moving on from one list to the next.

### SubmitDdo and the code

    Start -> ReadRow* -> EndOfRows -> FindEndpoint -> Confirm -> (Query -> Post?)* -> Done

The status query and the POST are separate steps, so two terminals may both find a piece absent. What
Curio does is modelled from the client: it answers 200, 401 or 404 and refuses an identifier it knows.
`Fault` covers everything that comes between: a 401 for a known deal (the signature's minute), other
errors and lost requests, an answer lost after the deal was taken, no endpoint, a declined prompt, a
killed process. The SP places or fails its deals, or places pieces without them, at any time.

Abstracted: the manifest's checks (in `PieceSet`), the request bodies, `--print-only`. All endpoints of an
SP are one Curio; two that do not share their deals would take the same piece twice.

### PieceSet and the code

Operators for `PieceSet.__init__`, the tree, `commitment`, `proof` and `notification_payload`, with
`keccak` as a constructor of tuples, so that equal hashes have equal arguments. Indices are those of the code,
from 0. `Rows` is the stable sort by (digest, size), a row's place being the number of rows up to it (`UpTo`); widths are
powers of two by doubling (`Doubled`), and `index >> depth` is halving (`Shifted`). The reference is the adapter's verification (`Path`, `Opens`), which is a contract outside of
`src/`: the path from a piece to the root along the bits of the index. The little state machine around
them is a deal's life: the client commits to a manifest, the SP fetches what may be another one, and
notifies sectors with any piece under any index.

### ClientDeals and the code

Each wallet runs one command at a time; its transaction may outlive it (`sent` without a session that
waits). `propose_deal` is `BeginPropose` (the manifest, with `_validate_manifest` as `ValidManifest`),
`ReadAdapter`, `SendProposal`, the block (`Land`) and `CheckAdapter`, the comparison after the receipt.
`deposit-for-deals` is `BeginDeposit` (after `wait_for_pending_transactions`; the eligible deals),
`ReadAccount` and `SendDeposit`. `terminate-deal` and `finalize-deal` are `BeginEnd`, which chooses the
call from the deal as it was read, and `EndDeal`. The market refuses what no longer fits (`Accepts`): a
rejection of a deal that has its rail by now reverts, and running the command again terminates it. `watched` tells deals
whose command has looked or still will from those whose command died or whose event was not decoded.

`init-deal` is one step here, its deposit of a month (made whatever the account has, which the code
calls intentional) and the rail together; its stages are `InitDeal`. The end of the service window, before which the market
finalizes nothing, is not kept: a deal may be finalized at any time.

Abstracted: one payment token; the token's balance suffices; the signers' prompts before anything is
sent are part of the step that sends (`Decline` and `Crash` come between). What a rail has locked is paid
out, not given back, when a deal ends. `account.owed` is what rails have locked since the last
settlement, which `get_account` does not return: the command takes it for available, and so does
`CoveredWhenDone`.

The docstring of `propose-deal-for-offer` (and its prompt) say that the admin account becomes the client of the deal;
the code passes `--client-address` to the market as the client. The model has one client, to which the
difference makes none.

### Registry and the code

`BeginDb` is `get_db_sps`, one read of the database; `Look` to `Bytes` are `register_or_update_sps` and
`_update_sp_params`, row by row and parameter by parameter, against the view read before the prompts;
`FetchOffers` is `get_db_offers`, a second read; `NextOffer` and `Create` are `register_offers`. `Whole` is
the code's loop over the classes of an organization: it leaves at the first class that cannot be returned,
also when only that class has a `specific_miner_id`, where the message speaks of "this SLA Class" alone; the classes before
it stay. Offers are created again by each run. The SP's wallet may try to register a new provider, which the contract
leaves to the admin (`Accepts`).

What ends a run of `register-db-sps` when all prompts are confirmed and nobody interferes, by `FailsForCause`:

| Cause | Code | In the model |
|---|---|---|
| before the offers, `RowsMalformed` | | |
| a miner id or `payment_address_evm` that is none | `sp_registry_db.py:72-75,101`, outside any `try` | `written = "unreadable"` |
| a Filecoin address that the node answers with an error | `admin/_utils.py:234` | `address = "lost"` |
| a capacity that is no size | `admin/_utils.py:259` | `written = "unsized"` |
| a provider named twice, in one row or two | `admin/_utils.py:266-269` | `twice`, `Duplicated` |
| a zero organization or payee; a capacity below what is committed; no room for a provider | SPRegistry | `Accepts` |
| with all rows in place, `OffersMalformed` | | |
| a class, or a row by now, that cannot be read | `sp_registry_db.py:20-33,115-121` | `UnreadableClass` |
| an `sla_class` without thresholds, in a class that is returned of an organization with miners | `admin/_utils.py:80-81` from 195, outside the `try` | `Unsupported` |
| an address that is none: its providers are skipped, its offers are not, and their providers are unknown | `admin/_utils.py:246-250` | `address = "bad"` |
| a price below the minimum of the token; as many offers as a provider may have | SPRegistry | `Accepts` |

An unsupported payment type, a price that is no whole amount, a specific miner and durations that cross after they were cut are
reported and skip the rest of an organization instead (`Returnable`). What SPRegistry refuses is read off the wrapper's comments
(`sp_registry.py:11-46`, `237-251`, `322-345`) and the errors of its ABI. Of these the runs cannot meet: what concerns matching only (paused, blocked),
thresholds out of range (they are constants), sizes that cross (both are 0), an invalid `ActorId` (`from_db` refuses it first). A token that is not
allowed is one whose minimum is above any price. The policy of the token and the limits stay during a run; offers are never deactivated in the meantime; and
an error of the database or the node is a crash. Registering with a zero payee is accepted and pays the organization
(`Paid`, `sp_registry.py:241`), so a later run finds a payee that differs and is refused.

Abstracted: what an offer promises but its durations and price; the unsupported payment types are one flag; a
provider of SPRegistry is controlled by the wallets of its organization; a conversion of an address succeeds or not.

### SectorExtension and the code

Time matters here as nowhere else: `now` is the chain's epoch, `Heads` what a node may answer for it. Adoption is
only its terms: `PlanBatch` computes `extension_term_max` with the epoch it was given, `LandBatch` is the actor, which
goes by its own. `extend_deal_sectors` is `Begin`, `View` (the deal), `ReadEpoch`, then the expirations and `List`,
`SayLongEnough` or `Stop`; `migration-status --check-sectors` computes the same from an epoch it reads *before* the deal,
so it is the same run with the two reads swapped (`status`). `Extend` is sptool, which may send part of what it was asked
for and be killed; a message may land late, be clamped to the end of a claim, or never land. `reached` and `vouched` are
ghosts: what the runs promised for a sector, and when.

### SourceClaims, MigrationStatus and the code

`SourceClaims` follows `source_claims`: a tipset, the ids listed, a mark for each id (in any order, by threads),
`allocated_size`. Claims go, are marked, and are dropped by settlements at any time between. The two lists are only
compared by bytes; `PlanWhole` says that this is enough, because ids never join the list again and sizes are positive.
The instance has sizes 1, 2 and 3, so that two claims weigh as much as a third.

`MigrationStatus` follows `_migration_status`: the epoch, the rail of each V1 deal, the list of V2 deals, the claims each V1 deal
still lists and those each V2 deal holds (`pair_by_claims`), and a line a V1 deal, for which the claims are counted once more while the deal and the rail are
those of before. `rails` with a rate of zero are passed over, as in `open_source_deals`. `candidates` is the last block of
the report. V1 deals that never had a rail, or not `Completed` or `Terminated`, are left out of `Sources`.

### OnboardData, SelfUpdate, Switches and the code

`OnboardData` is `Fetch`, `ReadRow`, `EndOfRows`, `CheckSaved`, `OpenFile`, `WriteFile`, `Download`, `Finish`; opening the
manifest truncates it, and a run killed before `WriteFile` leaves it torn. aria2c is called with `--continue=true`: a part
of a file is continued, a whole one is passed over. Two runs may have the file open at once. The code never compares
what was downloaded with its piece (a TODO at `onboard_data.py:109`): "whole" is what aria2c's control file says, and `HasAllPieces` is that
all pieces are there, not that their bytes are the right ones.

`SelfUpdate` is `Begin`, `Fetch`, `Count`, `CheckSafe`, `Prompt`, `Merge`, with the user's edits, commits and switches of
branches between any two. The remote is a line of commits of which each branch has a prefix; the merge takes what *any*
fetch has seen last, and goes into what is checked out *by then*.

`Switches` is the shape that the small commands of admin and SP share: wait for what is pending, look at the flag, ask,
sign, send, wait for the receipt. `set-payment-token` sends also when nothing would change. Wallets are two, the admin's and
the SP's, which share three of the flags.

### CidConverter, Amounts and the code

Both are a call each: an input is chosen, the result computed, and the property compares it with the definition. The
reference for the CID is FRC-0069 read backwards: decode the CID and find the commitment, and the size as capacity of the
tree less padding, the tree being the smallest that fits. A digit of base32 is cut out of the number that three
neighbouring groups of bits make, as `b32encode` cuts it out of five bytes; `DecodeUvarint` joins septets up to the first byte
without the continuation bit, and `ShiftLimit` is where the code calls it an overflow (64). That a payload is shorter than
2^(`ShiftLimit` - 2) bytes is assumed (`InputsAssumption`): the padding then still fits the integer that is read back, and no
sector holds a payload near it. A double of `Amounts` is a mantissa of `Bits` bits with an
unbounded exponent, and every operation rounds to nearest, ties to even.

## 3. Runs

| Run | Question | Bounds |
|---|---|---|
| `adopt_pairs` | safety of adoption, refinement of the ledger, does re-running complete a pair | 2 processes, 2 pairs, claims 2+1, batches of 1, 2 disturbances |
| `adopt_mixed` | two V1 deals given for one V2 deal, without the runbook's rule: is a mixture ever reported as complete for both | 2 processes, 2 pairs with one V2 deal, claims 2+1, 2 disturbances |
| `init_deal` | one deposit, true "All done!", setup in order, no broken transactions, a rail in the end | 2 sessions, one deal in one terminal at a time and one in both, any one disturbance |
| `init_declined` (violation) | is "All done!" true after a declined confirmation | 2 sessions, 2 deals, 1 decline |
| `migrate` | no stranded claim, whole postings, no early settlement, V1 settled in the end | 2 processes, 1 pair, 2 claims, lockups 1 and 3 with notice 2, any two kinds of disturbance |
| `submit_ddo` | one DDO deal a piece, true "Done.", all pieces submitted in the end | 2 sessions, 2 pieces, 2 faults, 1 failed deal |
| `client_deals` | do hashes match their adapters or is it told, are deposits enough and made once, do terminated deals end | 2 wallets, 3 adapters, two deals with any one disturbance or one deal with two |
| `registry` | is SPRegistry as the database after a run, what ends a run, does re-running bring it in line | 2 wallets, 2 organizations, 3 providers of which SPRegistry takes 2 with 2 offers each, 10 contents of the database with each cause of an error in one, 2 disturbances |
| `helpers` | see below | per part, below |
| `commands` | see below | per part, below |
| `wait_evicted` (violation) | does waiting end after an eviction | counts to 4, 1 eviction |
| `to_wei` (violation) | is the sum in wei the one that was typed | mantissa of 11 bits, up to 4 decimals |

`Helpers` and `Commands` hold modules that share nothing, one of which is chosen in the initial state (`part`) and moves while
the variables of the others stay; a property of theirs is that of the module under the same name, or the conjunction of two. The
theorems `HelpersHold` and `CommandsKeepTheirWord` are about these two as TLC checks them. The parts of `helpers`:

| Part | Question | Bounds |
|---|---|---|
| `AdapterReads` | is a result of `adapter_claim_ids` complete (`ReadComplete`), does it end (`ReadsEnd`) | 4 ids, pages of 2 |
| `MarketReads` | how many deals can a read lack while new ones come and others change their state, between lists and between pages (`MissedOnlyByShifts`) | 4 deals, 3 of the organization, 3 states, pages of 2 |
| `SourceClaims` | has a plan all claims of the V1 deal and no other, though they are read over minutes (`MissedOnlyByShifts`) | 3 claims of sizes 1, 2 and 3 |
| `NonceReads` | are two reads as good as one (`ClearWhenTold`), does waiting end without evictions (`ReadsEnd`) | counts to 4, 2 evictions |
| `PieceSet` | exact check, proofs for every index, whole deals (`PiecesExact`) | all manifests of up to 3 of 4 pieces, with repetitions; 4 and 5 pieces in two orders |
| `CidConverter` | does a CID say commitment and size (`ConversionsExact`) | payloads beside all capacities up to 8 MB, CIDs that are malformed in twelve ways |
| `Amounts` | are sums below the mantissa exact (`ConversionsExact`) | mantissa of 11 bits, 57 numerals with up to 4 decimals |
| `MigrationStatus` | is a V1 deal that is called lost lost (`LostForGood`) | 2 V1 deals with a claim each, 1 V2 deal |

And of `commands`:

| Part | Question | Bounds |
|---|---|---|
| `SectorExtension` | is no batch refused for its term, do sectors found long enough outlive the service, are extended ones not listed again | one claim in one sector, epochs to 3, margins 1 and 3, a node ahead by 1, a requested target |
| `OnboardData` | has the SP all pieces when told so, does re-running get them | 2 runs, 2 pieces, 2 good manifests and a bad one, 1 disturbance |
| `SelfUpdate` | is what is updated what was compared | 2 branches and a detached HEAD, 2 commits of the remote, 1 of the user |
| `Switches` | does a wallet's last word hold | 2 wallets, 4 flags, 2 transactions a wallet, 1 disturbance |

Why the bounds are enough: two processes are needed and sufficient for every race in the code (a run and
another run, or a run and the transaction of a dead one); a deal's adapter is read, changed and used in one proposal; a deposit that outlives its command and the
run after it are two commands of one wallet; two claims in batches of one give a "next
batch" after a crash; two disturbances allow a crash and an outside change, or an eviction, in one
behaviour (the proofs bound neither); lockups on both sides of the allowed notice, and a `SameRun` below the shorter of them,
exercise both ends of `close-v1-deal`.
A list of two pages and ids in both of them are what a skipped id needs; two pieces are a failed one and one
behind it; five pieces make a tree of depth three with padding on two levels. A claim that is dropped and one that stays, of the
size of two others, are what a comparison of bytes could confuse; a V1 deal and its replacement, and a
second V1 deal of which it may hold claims too, are what a pairing could. Sectors do not influence each other but through a message, of which any part may land: one sector
shows both. A mantissa of 11 bits has its rounding at sums that TLC can enumerate on both sides of it. `CHECK_DEADLOCK FALSE` is given where the
system may really stop: all deals lost or done, a conversion returned, epochs at their bound.

### What the violation runs show

- `wait_evicted`: `get_address_nonce` polls until the latest count reaches a pending count read before the
  loop. When that transaction is evicted, the loop never ends although nothing is pending.
- `init_declined`: a declined final confirmation comes back as a dry run; `init-deal` does not look at
  the hash and ends with "All done!" although there is no rail. The migration commands check (`_sent`).
- `to_wei`: the product of the typed amount and a power of ten is a double, and the check `result != int(result)` cannot
  tell: above 2^53 (in the instance, 2^11) every double is whole. With 18 decimals, `to_wei(1.1, 18)` is
  1100000000000000128, where the comment of the function has 1100000000000000000. USDC has 6 decimals, and below 4.5 billion
  of it `ConversionsExact` holds.

Seen on the way, and why `HandledUnlessFailed` has its condition: a DDO deal that failed is found by its
deterministic identifier and ends `submit-ddo`; since the loop comes to it first in each run, the pieces
behind it are never submitted.

### Fairness

`FairSpec` assumes that a started process goes on (its steps are blocking calls that return), that blocks
take pending transactions, and that the user starts the command again as its messages say: strong
fairness for starting, because a start may be enabled only now and then (another run is at work, something
is pending). Crashes, evictions and operators are not fair and bounded in number: liveness is claimed
once they stop. `EventuallySettled` and `EventuallyReady` suppose that nothing is evicted, because of
`wait_evicted`; adoption does not wait but refuses, so `EventuallyReported` does not.
`EventuallyEnded` and `EventuallySynced` suppose that the admin starts the
command again as long as there is something to do; `EventuallySynced` also that what `RowsMalformed` calls malformed is repaired. Errors in the offers need not be. In `NonceReads`
other programs send a bounded number of transactions; with an endless stream no wait ends. `OnboardedUnlessTorn` supposes that each
run goes on and that the SP starts the command again; a manifest torn by a killed run, which every later run fails to parse, is
its one exception, and the deal and its URL must be good from some time on.

## 4. Proofs

Every safety property of a run that is expected to hold is a theorem for all values of the constants. The table has the invariant behind each; the idea is always the same: what a command has read and means to do
stays right until it lands, because of what the others may not do in the meantime.

| Proved | From | In |
|---|---|---|
| `NoDoubleRegistration`, `BatchExecutable`, `ReportTruthful`, `ReadbackMatches`, `ImplementsLedger` | `AdoptionInv` | `ClaimAdoption_proofs` |
| `MixIsTold` | `MixInv` | `ClaimAdoption_proofs` |
| `DepositOnce`, `SentWorks`, `DoneUnlessDeclined`, `ImplementsSetup` | `SetupInv` | `InitDeal_proofs` |
| `FinishedWhole`, `RefusedOnlyIfSettled`, `ReplacedBeforeClosed` | `MigrationInv` | `Migration_proofs` |
| `OneDealPerPiece`, `DoneIsTrue` | `SubmitSound` | `SubmitDdo_proofs` |
| `MismatchTold`, `CoveredWhenDone`, `NeverOverfunded` | `DealsSound` | `ClientDeals_proofs` |
| `SyncedWhenThrough`, `FailsForCause` | `IInv` | `Registry_proofs` |
| `ReadComplete`, `MissedOnlyByShifts`, `PiecesExact`, `ConversionsExact`, `LostForGood`, `ClearWhenTold` | `ReadSound` (twice), `PlanSound`, `PiecesSound`, `Built`, `Converted`, `StatusSound`, `ReadsBehind` | `Helpers_proofs` |
| `ExtensionTaken`, `OutlivesService`, `NotShortAgain`, `HasAllPieces`, `LastWordHolds`, `UpdatesWhatWasChecked` | `TermsInv`, `OnboardSound`, `SwitchesSound`, `UpdateSound` | `Commands_proofs` |

`ClaimAdoption_proofs` proves, for any number of processes, deals and claims: type correctness; and,
when one adopt runs per V2 deal at a time (the rule of the runbook) and no V2 deal is in two pairs, the
inductive invariant `AdoptionInv` and the refinement of `AdoptionLedger`. The safety properties are
not inductive: they need that a run's batch is fresh from the guard on (`BatchFresh`), that what is in
the mempool is fresh and next in line (`MempoolFresh`), and that while a run is in its loop nothing is
in flight for its V2 deal but its own transaction (`LoopAlone`). That last conjunct is where the nonce
gate matters: a run enters the loop only when nothing is pending.
`MixIsTold` needs neither rule: with any number of runs of any pairs, no two V1 deals are reported as adopted by one V2 deal.
Its invariant `MixInv` is that a pair whose last batch was read back has a claim on the adapter, and no other pair of
that V2 deal was read back, because the readback refuses claims outside of its V1 deal.

`InitDeal_proofs` proves its three properties and the refinement of `DealSetup`
for any number of sessions, deals and disturbances. `SetupInv` says that every transaction in the mempool
has the wallet's next nonce (`TxSound`), so a block that takes one leaves none, and a session that was
built for that nonce has lost it (`SessionSound`); and that of a deal worked on in one terminal nothing is
broadcast but what its session waits for, so that the approval a session did not find is still missing when
its deposit lands.

`Migration_proofs` proves, when no V2 deal is paired with two V1 deals, that what the two commands rely
on stays true however long their prompts and blocks take. The lemmas `V1Drift`, `V2Drift` and `WholeStays` say which way the chain can move: V1 lists
only fewer claims, V2 holds only more and no more once it holds all, lockups only shrink,
an ended rail stays ended. `Sound` collects what a transaction needs; it is established by the checks and
preserved by every step.

`SubmitDdo_proofs` works for any number of pieces, sessions and faults. `SubmitSound`: identifiers are those of the pieces,
nothing is ever taken back from the adapter or from Curio (`Grown`), and what a session has passed by is accepted or known to Curio (`Passed`).

`ClientDeals_proofs` works for any sizes, prices, caps, months and faults. `DealsSound` says what a command knows at each step and what its
transaction asks for (`Meant`, `MeantTx`, the latter also when the command is dead), and follows the money (`FundsSound`):

- `Most` is what the deals with a rail cost for the longest time anybody asks for. What is available, with the deposit that is being asked
  for or on its way, never exceeds it; a deposit is the difference between a sum over some of these deals and what was available,
  a deal that gets its rail raises `Most` by at least its own month, and no deal loses its rail. Hence `NeverOverfunded`, for deposits that outlive
  their command too.
- `FundsFor` is that what is available with the deposit is enough for the deals it is for, as long as nobody withdrew and no rail locked or accrued in the
  meantime (`clean`). Hence `CoveredWhenDone`.

The amounts are sums of rounded-up products. The lemmas prove what is needed of them (`SumFunctionOnSet` step by step, its
monotonicity, the division that rounds up, the longest of the months) from the definitions of the community modules. The library's induction cannot be used with
operators, so these lemmas take the set of the good subsets, or numbers, as a constant and look at a smallest one that is not good.
`MismatchTold` is kept by who may still tell: a deal that is watched and has the wrong hash is told, or its command is at `created`, before the comparison.

`Registry_proofs` works for any number of providers, organizations, classes, edits and faults. In `IInv`, a transaction waits only while its command does,
unless that one died (`Outbox`); a run works through rows of one provider each (`Inside`); for a run that nobody disturbs, SPRegistry still has of the
provider at hand what the command saw (`AsSeen`), and the rows behind it are in place (`Kept`). The admin's run, as long as the database is not edited (`RunSound`), has the rows of the database and fails with all of them in place, when none of
what `RowsMalformed` names is so (`RowsCalm`); when nothing of `OffersMalformed` is, either (`Calm`), it only creates offers of providers among its rows, with the days in order
and a price SPRegistry takes, so it does not fail. Each cause stays one once it is there (`CausesStay`): registrations are never taken back and offers only add up (`Grows`).
`WholeBounded` is the lemma that a class which the code returns has its bounds right and is in the list, though `Whole` is a minimum over a list.

`Helpers_proofs`:

- `NonceReads`, for any natural bounds, from `ReadsBehind`: what was read is never ahead of the chain, because the latest
  count only grows; so a pending count, read second, that is not larger than it proves that nothing is pending now.
- `AdapterReads`, for any number of ids, any page size and any number of changes between pages, from its `ReadSound`: what was read of the pending list is
  still its prefix, or one of its ids has moved to the confirmed list and the read will be refused.
- `MarketReads`, for any number of deals, states and pages, from its `ReadSound`: a deal of the organization is in one list of a state, once (`OwnListed`);
  a read of all deals has the first ones, as far as its offset (`InOrder`); a read by states still comes to what is behind its offset and in later lists,
  and what is known and neither found nor there (`Passed`) is no more than was shifted (`Ahead`): a deal only moves to later states, and one that leaves a list moves at most one other across the offset.
- `SourceClaims`, for any sizes, from `PlanSound`: claims only go, so what was listed contains what is still listed, and equal bytes of positive sizes
  make the two equal.
- `MigrationStatus`, for any number of deals, when claims belong to one V1 deal each, from `StatusSound`:
  from the read of a terminated rail on, the adapter takes no further claim of that V1 deal, so a V2 deal that holds one did so
  before the list of V2 deals was read, and is found when it is paired (`Followed`), by ids that have all that V1 lists later (`IdsRead`).
- `PieceSet`, for manifests of any length and pieces of any digest and size, from `PiecesSound`. A place in the sorted order is the number of rows
  up to it, so sorting is a permutation (`PlaceBijects`), and two listings of the same set sort to the same rows (`OneListing`). Equal roots over as many leaves have
  equal nodes on every level, from the top down, because `keccak` has one preimage, and so equal rows (`RootFixesRows`); the path of a notification
  meets the tree on each level or on none, so it ends in the root from its own piece alone (`PathOpens`). The bytes of a deal are a sum over a set, in whatever order
  (`BytesOfSet`). Collisions of the real `keccak` are outside of this.
- `CidConverter`, for payloads of any size below 2^(`ShiftLimit` - 2), digests of up to 255 bytes of any content and texts of any digits, from `Built`, which only
  says that what was returned is the conversion's; the work is in the lemmas about it. base32: a digit is cut out of at most two bytes and a byte
  out of at most three digits, and by cases on the place within 40 bits each byte comes back (`DecodeEncode`). Integers of seven bits a byte: what was
  written is joined again by induction on the septets, and ends at the first byte below 128, wherever it stands in the data (`UvarintRead`); the
  four of the header follow one another, so what is read behind them is the digest. The tree: 2^k is the first power not
  below n when k is the length of n - 1 in bits (`BitLengthIs`), so the height is the smallest that holds the payload, and capacity less padding is the size again.
- `Amounts`, for mantissas of any length, any numerals and any decimals, from `Converted`, which says the same of it. A double is no further from a quotient than half of
  its last bit (`DoubleIs`); for amounts below half of what a mantissa holds, the errors of a numeral (`FirstRounding`) and of its product (`SecondRounding`) together stay
  below a half, and a product that is whole is the right one. That `Nearest` is what the hardware does stays a definition.

`Commands_proofs`:

- `SectorExtension`, for any terms, expirations,
  durations and any number of claims and sectors, when the reserve is not below the drift of the node and the margin for ACCEPTED deals not below that
  for ACTIVE ones (`EpochsAssumption`; a day against seconds, and 60 days against 30, in the code). `TermsInv` has one idea in four
  places: an epoch that was enough for the deal with a margin at some time (`Lasts`) stays so, because a deal is activated
  once, at a time that is known then, and sectors only get longer. `RunSound` says that the deal a run has read is still that, or has moved on.
- `OnboardData`, for any number of terminals, pieces and manifests: what a run calls done the adapter has accepted, and before aria2c each piece of the
  deal is in its queue, accepted or whole on the disk (`Gathered`); the SP deletes only what is accepted.
- `Switches`, for any number of transactions and killed commands: a wallet has at most one transaction on its way and none beside one that is
  signed (`OneOnItsWay`), and nothing was said yet of a flag that a command of that wallet still means to set (`NothingSaid`).
- `SelfUpdate`: between the comparison and the merge, the call remembers the branch that was compared, which is still checked out unless the user moved (`Compared`).

The theorems are about the specifications of the modules without their fairness, which only makes them stronger; `HelpersHold` and
`CommandsKeepTheirWord` transfer those of `Helpers_proofs` and `Commands_proofs` to the specifications that TLC checks, in which one module moves and the others do not.
They assume what the modules assume of their constants (`ASSUME` in the modules, which TLC evaluates in each run). TLC confirmed each invariant before it was proved.

The provers know nothing of `^` and cannot use induction with an operator, so `Powers` has powers and lengths in bits as recursive functions; that these have
the values one expects (`PowerIs`, `BitLengthIs`) is proved with the same lemma about sets of good numbers (`AllNumbers`).

Only model-checked: all liveness (`EventuallyReported`, `EventuallyReady`, `EventuallySettled`, `ReadsEnd`, `HandledUnlessFailed`,
`EventuallyEnded`, `EventuallySynced`, `OnboardedUnlessTorn`): the provers handle neither fairness nor ENABLED.

## 5. Not modelled

- **Signers** (`txsigner.py`): keys and signatures. A signed transaction is one its sender made.
- **Contract views and tokens**: wrappers that call a contract and decode the answer. The contracts are external; a module that
  uses one has its behaviour as the code relies on it. Event decoding is modelled where it matters, as a receipt without a deal id (`ClientDeals`).
- **Addresses**: `ActorId`, conversions between `f0`, `f4` and `0x` forms are done by the node over JSON-RPC.
- **Single transactions without a look at the chain**: roles, completion paddings. There is nothing between a read and a write to get wrong.
- **Commands that only print**: the lists of deals, offers, allocations and claims (their paging is `MarketReads`), balances, `convert`, `config`;
  `migration-status --check-sectors` beyond what `SectorExtension` has of it; retrieval vouchers, which are one signature.
- **Formatting, prompts, logging, environment**: prompts are modelled where a user's answer or delay matters.
- **The database** of SPs: its queries are read as sets of rows (`Registry`).
