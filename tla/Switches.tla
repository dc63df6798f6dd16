-------------------------------- MODULE Switches --------------------------------
(***************************************************************************)
(* The commands that switch a flag of SPRegistry: a provider is paused or  *)
(* blocked, an offer active or not, a payment token allowed or not.        *)
(*                                                                         *)
(* Each waits until nothing of its wallet is pending, reads the flag, says *)
(* so when it is as asked for (but for the token, which is set again), and *)
(* else sends one transaction.  The wallets of the admin and of the SP     *)
(* switch the same flags.  A run may be killed when its transaction is on  *)
(* its way.  A wallet runs one command at a time.                          *)
(***************************************************************************)
EXTENDS Naturals

CONSTANTS
  MaxTxs,      \* bound on the transactions of a wallet
  MaxFaults    \* bound on crashes and evictions

Wallets == {"admin", "sp"}
Flags == {"paused", "blocked", "active", "allowed"}

VARIABLES
  flags,     \* SPRegistry: flag -> BOOLEAN
  mempool,   \* transactions that are not in a block
  count,     \* wallet -> its "latest" count
  run,       \* wallet -> the command it runs
  word,      \* flag -> wallet -> what its last command said the flag is, if anything
  faults

vars == <<flags, mempool, count, run, word, faults>>

None == [flag |-> "none", value |-> FALSE]
Idle == [pc |-> "idle", command |-> None, nonce |-> 0]

Init ==
  /\ flags \in [Flags -> BOOLEAN]
  /\ mempool = {}
  /\ count = [w \in Wallets |-> 0]
  /\ run = [w \in Wallets |-> Idle]
  /\ word = [f \in Flags |-> [w \in Wallets |-> {}]]
  /\ faults = MaxFaults

-----------------------------------------------------------------------------
(* The commands, and who has them.                                          *)

Switch(flag, value) == [flag |-> flag, value |-> value]

PauseSp == Switch("paused", TRUE)
UnpauseSp == Switch("paused", FALSE)
BlockSp == Switch("blocked", TRUE)
UnblockSp == Switch("blocked", FALSE)
SetOfferActive(value) == Switch("active", value)
SetPaymentToken(allowed) == Switch("allowed", allowed)

AdminCommands == {PauseSp, UnpauseSp, BlockSp, UnblockSp} \union {SetPaymentToken(v) : v \in BOOLEAN}
SpCommands == {PauseSp, UnpauseSp}
Commands(w) ==
  (IF w = "admin" THEN AdminCommands ELSE SpCommands) \union {SetOfferActive(v) : v \in BOOLEAN}

At(w, step) == run[w].pc = step
Mine(w) == {t \in mempool : t.by = w}
Asked(w) == run[w].command
TxOf(w) == [by |-> w, nonce |-> run[w].nonce, command |-> Asked(w)]

Begin(w, command) ==
  /\ At(w, "idle")
  /\ run' = [run EXCEPT ![w] = [Idle EXCEPT !.pc = "wait", !.command = command]]
  /\ word' = [word EXCEPT ![command.flag][w] = {}]
  /\ UNCHANGED <<flags, mempool, count, faults>>

(* Mutated form: the flag is read at once.                                  *)
DoNotWait(w) == TRUE

(* wait_for_pending_transactions, which may have ended well before the read:*)
(* nothing of the wallet's own gets pending in between.                     *)
NothingPending(w) == Mine(w) = {}

(* set-payment-token shows what is configured and does not compare it.      *)
NothingToDo(w) == Asked(w).flag # "allowed" /\ flags[Asked(w).flag] = Asked(w).value

(* "is already paused"                                                      *)
Already(w) ==
  /\ At(w, "wait") /\ NothingPending(w) /\ NothingToDo(w)
  /\ word' = [word EXCEPT ![Asked(w).flag][w] = {Asked(w).value}]
  /\ run' = [run EXCEPT ![w] = Idle]
  /\ UNCHANGED <<flags, mempool, count, faults>>

(* Confirmed; sign_and_send_tx takes the nonce and signs.                   *)
Sign(w) ==
  /\ At(w, "wait") /\ NothingPending(w) /\ ~NothingToDo(w)
  /\ run' = [run EXCEPT ![w].pc = "signed", ![w].nonce = count[w]]
  /\ UNCHANGED <<flags, mempool, count, word, faults>>

Send(w) ==
  /\ At(w, "signed") /\ count[w] < MaxTxs
  /\ mempool' = mempool \union {TxOf(w)}
  /\ run' = [run EXCEPT ![w].pc = "sent"]
  /\ UNCHANGED <<flags, count, word, faults>>

(* The receipt: "Storage Provider paused: <hash>"                           *)
Receipt(w) ==
  /\ At(w, "sent") /\ count[w] > run[w].nonce
  /\ run' = [run EXCEPT ![w] = Idle]
  /\ UNCHANGED <<flags, mempool, count, word, faults>>

-----------------------------------------------------------------------------

(* A block.  From here on the flag is the word of the sender, if its run    *)
(* still waits for the receipt, and of no other wallet.                     *)
Land(t) ==
  /\ t.nonce = count[t.by]
  /\ flags' = [flags EXCEPT ![t.command.flag] = t.command.value]
  /\ count' = [count EXCEPT ![t.by] = @ + 1]
  /\ mempool' = mempool \ {t}
  /\ word' = [word EXCEPT ![t.command.flag] =
                [w \in Wallets |-> IF w # t.by THEN {}
                                   ELSE IF At(w, "sent") /\ t = TxOf(w) THEN {t.command.value}
                                   ELSE @[w]]]
  /\ UNCHANGED <<run, faults>>

Fault == faults > 0 /\ faults' = faults - 1

(* Ctrl-C, an error, a declined prompt, no receipt in time                  *)
Crash(w) ==
  /\ Fault
  /\ ~At(w, "idle")
  /\ run' = [run EXCEPT ![w] = Idle]
  /\ UNCHANGED <<flags, mempool, count, word>>

Evict(t) ==
  /\ Fault
  /\ mempool' = mempool \ {t}
  /\ UNCHANGED <<flags, count, run, word>>

Next ==
  \/ \E w \in Wallets :
       \/ \E command \in Commands(w) : Begin(w, command)
       \/ Already(w) \/ Sign(w) \/ Send(w) \/ Receipt(w) \/ Crash(w)
  \/ \E t \in mempool : Land(t) \/ Evict(t)

Spec == Init /\ [][Next]_vars

-----------------------------------------------------------------------------
(* Properties.                                                              *)

(* A wallet's last word holds: what a command said of a flag, that it was   *)
(* switched or was so already, stays true until another wallet switches it, *)
(* although the transaction of an earlier command that was killed may have  *)
(* landed at any time.                                                      *)
LastWordHolds ==
  \A f \in Flags, w \in Wallets : word[f][w] \subseteq {flags[f]}
=============================================================================
