------------------------------ MODULE NonceReads ------------------------------
(***************************************************************************)
(* The nonce of a transaction: get_address_nonce and                       *)
(* ensure_no_pending_transactions of Web3Service.                          *)
(*                                                                         *)
(* The node is asked for two counts of the wallet, "latest" and "pending", *)
(* in two calls.  Between the calls other programs broadcast from the same *)
(* wallet, blocks take transactions and the node evicts some.  The other   *)
(* modules take both functions to be atomic (nothing is pending, and the   *)
(* nonce is the latest count); this one checks that the order of the reads *)
(* earns that.                                                             *)
(***************************************************************************)
EXTENDS Integers

CONSTANTS
  MaxNonce,      \* bound on the transactions of the wallet
  MaxEvictions   \* bound on how often the node evicts

VARIABLES
  latest,        \* transactions of the wallet in blocks
  pending,       \* those, and the ones that wait for a block
  call,          \* the local variables of the function that runs
  evictions      \* how often the node may still evict

vars == <<latest, pending, call, evictions>>

(* "refuse" is the path of a confirmed batch: ensure_no_pending_transactions*)
(* and then get_address_nonce("latest"); "wait" is get_address_nonce, and   *)
(* wait_for_pending_transactions, which drops its result.                   *)
Modes == {"refuse", "wait"}
Call == [pc : {"none", "latest", "pending", "poll", "clear", "done", "refused"},
         mode : Modes, latest_nonce : Nat, pending_nonce : Nat, nonce : Nat]

At(step) == call.pc = step

Init ==
  /\ latest \in 0 .. MaxNonce
  /\ pending \in latest .. MaxNonce
  /\ call = [pc |-> "none", mode |-> "wait", latest_nonce |-> 0, pending_nonce |-> 0, nonce |-> 0]
  /\ evictions = MaxEvictions

(* The caller starts, or starts over after an answer.                       *)
Begin(mode) ==
  /\ call.pc \in {"none", "done", "refused"}
  /\ call' = [call EXCEPT !.pc = "latest", !.mode = mode, !.nonce = 0]
  /\ UNCHANGED <<latest, pending, evictions>>

ReadLatest ==
  /\ At("latest")
  /\ call' = [call EXCEPT !.pc = "pending", !.latest_nonce = latest]
  /\ UNCHANGED <<latest, pending, evictions>>

(* "pending_nonce != latest_nonce" of one function and "pending_nonce >     *)
(* latest_nonce" of the other: pending is read last.                        *)
NothingPending(l, p) == IF call.mode = "refuse" THEN p = l ELSE p <= l

ReadPending ==
  /\ At("pending")
  /\ call' = [call EXCEPT !.pending_nonce = pending,
                          !.pc = IF NothingPending(call.latest_nonce, pending) THEN "clear"
                                 ELSE IF call.mode = "refuse" THEN "refused"
                                 ELSE "poll"]
  /\ UNCHANGED <<latest, pending, evictions>>

(* Mutated form: once the inner loop has ended nothing is read again.       *)
ReturnAtOnce(l) == IF call.pending_nonce > l THEN "poll" ELSE "clear"

(* The inner loop reads "latest" until it reaches the pending_nonce read    *)
(* before the loop; only then is "pending" read again.                      *)
AfterPoll(l) == IF call.pending_nonce > l THEN "poll" ELSE "pending"

Poll ==
  /\ At("poll")
  /\ call' = [call EXCEPT !.latest_nonce = latest, !.pc = AfterPoll(latest)]
  /\ UNCHANGED <<latest, pending, evictions>>

(* The nonce: read again in a confirmed batch, pending_nonce otherwise.     *)
Nonce == IF call.mode = "refuse" THEN latest ELSE call.pending_nonce

Return ==
  /\ At("clear")
  /\ call' = [call EXCEPT !.pc = "done", !.nonce = Nonce]
  /\ UNCHANGED <<latest, pending, evictions>>

Function == ReadLatest \/ ReadPending \/ Poll \/ Return

(* Another program of the same wallet.                                      *)
Broadcast ==
  /\ pending < MaxNonce
  /\ pending' = pending + 1
  /\ UNCHANGED <<latest, call, evictions>>

Include ==
  /\ latest < pending
  /\ latest' = latest + 1
  /\ UNCHANGED <<pending, call, evictions>>

(* The node drops a pending transaction; the ones behind it stop counting.  *)
Evict ==
  /\ evictions > 0
  /\ \E p \in latest .. pending - 1 : pending' = p
  /\ evictions' = evictions - 1
  /\ UNCHANGED <<latest, call>>

Next ==
  \/ \E mode \in Modes : Begin(mode)
  \/ Function \/ Broadcast \/ Include \/ Evict

Spec == Init /\ [][Next]_vars

(* The function runs on and blocks take what is pending.                    *)
Fairness == WF_vars(Function) /\ WF_vars(Include)

FairSpec == Spec /\ Fairness

-----------------------------------------------------------------------------
(* Properties.                                                              *)

TypeOK ==
  /\ latest \in Nat /\ pending \in Nat /\ evictions \in Nat
  /\ latest <= pending
  /\ call \in Call

(* The two reads are as good as one: when the functions find the wallet     *)
(* clear it is clear at that moment, and a waiting caller has the wallet's  *)
(* next nonce, whatever happened between the calls.                         *)
ClearWhenTold ==
  [][call.pc # "clear" /\ call'.pc = "clear"
     => pending = latest /\ call'.pending_nonce = latest]_vars

(* No nonce is handed out ahead of the wallet: a transaction that carries   *)
(* it is taken or refused, it never waits behind a hole.                    *)
NonceNeverAhead == At("done") => call.nonce <= latest

(* `client wait`: "Wait for all pending transactions from the current       *)
(* private key to be mined and exit."                                       *)
WaitExits == At("latest") /\ call.mode = "wait" ~> At("done")

(* It does, if no transaction is evicted.                                   *)
WaitExitsUnlessEvicted == [](evictions = MaxEvictions) => WaitExits

(* The inductive invariant: what was read is behind the chain.              *)
ReadsBehind ==
  /\ TypeOK
  /\ ~At("latest") => call.latest_nonce <= latest
  /\ At("clear") => call.pending_nonce <= latest
  /\ NonceNeverAhead
=============================================================================
