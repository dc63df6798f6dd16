--------------------------------- MODULE Helpers ---------------------------------
(* The functions the commands are built from, each in a small instance: the *)
(* reads of an adapter, of the market and of the nonces, piece sets, piece  *)
(* CIDs and amounts, the claims of a V1 deal and the report on V1 deals.    *)
(* They have nothing in common; a behaviour is one of them, and the         *)
(* variables of the others stay as they are.                                *)
EXTENDS AdapterReads

CONSTANTS
  Deals, Own, StateCount, Limit,              \* MarketReads
  MaxNonce, MaxEvictions,                     \* NonceReads
  Manifests,                                  \* PieceSet
  Inputs, DigestSize, ShiftLimit,             \* CidConverter
  Mantissa, Typed, Decimals, SectorSizes, TiB, \* Amounts
  Sources, ClaimsOf, Targets, Others,         \* MigrationStatus
  Allocations, SizeOf, Proposals, PerCent     \* SourceClaims

VARIABLES
  part,
  created, lists, marketCall,
  latest, unmined, nonceCall, evictions,
  deal, proposed, fetched, accepted,
  cidInput, cid,
  sum, wei,
  rail, state, listing, held, report,
  listed, registry, marked, sound, requested, reading

Market  == INSTANCE MarketReads WITH call <- marketCall, States <- StateCount
Nonces  == INSTANCE NonceReads WITH pending <- unmined, call <- nonceCall
Pieces  == INSTANCE PieceSet
Cids    == INSTANCE CidConverter WITH input <- cidInput
Money   == INSTANCE Amounts WITH input <- sum, result <- wei, Bits <- Mantissa
Status  == INSTANCE MigrationStatus WITH call <- report, listed <- listing
Source  == INSTANCE SourceClaims WITH Capacity <- Proposals, Padding <- PerCent

ASSUME PagesOfOwnDeals == Market!ReadsAssumption
ASSUME DealsHaveNumbers == Status!IdsAssumption
ASSUME CountsAreNumbers == MaxNonce \in Nat /\ MaxEvictions \in Nat
ASSUME ClaimsHaveSizes  == Source!SizesAssumption
ASSUME ManifestsOfPieces == Pieces!PiecesAssumption
ASSUME CidsOfPayloads  == Cids!InputsAssumption
ASSUME AmountsOfNumbers == Money!AmountsAssumption

market == <<created, lists, marketCall>>
nonces == <<latest, unmined, nonceCall, evictions>>
pieces == <<deal, proposed, fetched, accepted>>
cids   == <<cidInput, cid>>
money  == <<sum, wei>>
status == <<rail, state, listing, held, report>>
source == <<listed, registry, marked, sound, requested, reading>>

all == <<part, vars, market, nonces, pieces, cids, money, status, source>>

HelpersInit ==
  /\ part \in {"adapter", "market", "nonces", "pieces", "cids", "money", "status", "source"}
  /\ Init /\ Market!Init /\ Pieces!Init /\ Status!Init /\ Source!Init
  /\ part # "source" => sound = {} /\ requested = CHOOSE bytes \in Proposals : TRUE
  /\ IF part = "nonces" THEN Nonces!Init
     ELSE /\ latest = 0 /\ unmined = 0 /\ evictions = 0
          /\ nonceCall = [pc |-> "none", mode |-> "wait", latest_nonce |-> 0, pending_nonce |-> 0, nonce |-> 0]
  /\ IF part = "cids" THEN Cids!Init ELSE cidInput = "none" /\ cid = Cids!None
  /\ IF part = "money" THEN Money!Init ELSE sum = "none" /\ wei = Money!None

AdapterNext == part = "adapter" /\ Next /\ UNCHANGED <<part, market, nonces, pieces, cids, money, status, source>>
MarketNext  == part = "market" /\ Market!Next /\ UNCHANGED <<part, vars, nonces, pieces, cids, money, status, source>>
NoncesNext  == part = "nonces" /\ Nonces!Next /\ UNCHANGED <<part, vars, market, pieces, cids, money, status, source>>
PiecesNext  == part = "pieces" /\ Pieces!Next /\ UNCHANGED <<part, vars, market, nonces, cids, money, status, source>>
CidsNext    == part = "cids" /\ Cids!Next /\ UNCHANGED <<part, vars, market, nonces, pieces, money, status, source>>
MoneyNext   == part = "money" /\ Money!Next /\ UNCHANGED <<part, vars, market, nonces, pieces, cids, status, source>>
StatusNext  == part = "status" /\ Status!Next /\ UNCHANGED <<part, vars, market, nonces, pieces, cids, money, source>>
SourceNext  == part = "source" /\ Source!Next /\ UNCHANGED <<part, vars, market, nonces, pieces, cids, money, status>>

HelpersNext ==
  AdapterNext \/ MarketNext \/ NoncesNext \/ PiecesNext \/ CidsNext \/ MoneyNext \/ StatusNext \/ SourceNext

HelpersSpec ==
  /\ HelpersInit /\ [][HelpersNext]_all
  /\ WF_vars(Reader)
  /\ Nonces!Fairness

-----------------------------------------------------------------------------
(* What the modules say of them.                                            *)

(* MarketReads: a list that was read page by page lacks no more deals than  *)
(* left pages that were read while others of their list were not.           *)
(* SourceClaims: no claim of a V1 deal is missing from a plan or should not *)
(* be in it, however long the reads took.                                   *)
MissedOnlyByShifts == Market!MissedOnlyByShifts /\ Source!PlanWhole

(* NonceReads: two reads of the wallet's counts are as good as one.         *)
ClearWhenTold == Nonces!ClearWhenTold

(* Reading ends: adapter_claim_ids with a result or an error, `client wait` *)
(* when nothing is evicted.                                                 *)
ReadsEnd == ReadEnds /\ Nonces!WaitExitsUnlessEvicted

(* PieceSet: exactly the pieces of the deal pass, and are placed whole.     *)
PiecesExact == Pieces!SetIsExact

(* CidConverter: the CID of a piece says its commitment and its size, at    *)
(* all boundaries.  Amounts: below the mantissa, what is sent and shown is  *)
(* exact.                                                                   *)
ConversionsExact == Cids!SaysBoth /\ Money!SmallAmountsExact

(* MigrationStatus: a V1 deal reported as lost is lost for good.            *)
LostForGood == Status!LostForGood
=============================================================================
