-------------------------------- MODULE Commands --------------------------------
(***************************************************************************)
(* Commands and steps that share nothing with the others: the extension of *)
(* terms and sectors, the download of a deal, the update that precedes     *)
(* every command, and the switches of SPRegistry.  A behaviour is one of   *)
(* them; the variables of the others stay as they are.                     *)
(***************************************************************************)
EXTENDS SectorExtension

CONSTANTS
  Runs, Pieces, Good, Bad, Retries,            \* OnboardData
  Tracking, Released, MaxCommits, MaxLocal,    \* SelfUpdate
  MaxTxs, MaxFaults                            \* Switches, OnboardData

ASSUME RetriesAssumption == Retries \in Nat

VARIABLES
  part,
  server, open, accepted, disk, saved, onboarding, told,
  upstream, ref, has, own, head, dirty, call,
  flags, mempool, count, switching, word,
  faults

Onboard == INSTANCE OnboardData WITH run <- onboarding
Update == INSTANCE SelfUpdate
Switches == INSTANCE Switches WITH run <- switching

onboard == <<server, open, accepted, disk, saved, onboarding, told>>
update == <<upstream, ref, has, own, head, dirty, call>>
switches == <<flags, mempool, count, switching, word>>

all == <<part, vars, onboard, update, switches, faults>>

CommandsInit ==
  /\ part \in {"sectors", "onboard", "update", "switches"}
  /\ Onboard!Init /\ Update!Init /\ Switches!Init
  /\ part # "onboard" => server = CHOOSE m \in Good : TRUE
  /\ part # "update" => head = "main"
  /\ flags = [f \in Switches!Flags |-> FALSE]
  /\ IF part = "sectors" THEN Init
     ELSE /\ now = 0 /\ deal = NoDeal /\ termMax = [c \in Claims |-> 0] /\ held = {}
          /\ batch = NoBatch /\ refusal = "none" /\ expiration = [s \in Sectors |-> 0]
          /\ run = Idle /\ sent = {} /\ reached = [s \in Sectors |-> Never]
          /\ vouched = [s \in Sectors |-> Never]

SectorsNext  == part = "sectors" /\ Next /\ UNCHANGED <<part, onboard, update, switches, faults>>
OnboardNext  == part = "onboard" /\ Onboard!Next /\ UNCHANGED <<part, vars, update, switches>>
UpdateNext   == part = "update" /\ Update!Next /\ UNCHANGED <<part, vars, onboard, switches, faults>>
SwitchesNext == part = "switches" /\ Switches!Next /\ UNCHANGED <<part, vars, onboard, update>>

CommandsNext == SectorsNext \/ OnboardNext \/ UpdateNext \/ SwitchesNext

(* What OnboardData assumes: a run goes on, and the command is run again.   *)
CommandsSpec ==
  /\ CommandsInit /\ [][CommandsNext]_all
  /\ \A r \in Runs : WF_all(part = "onboard" /\ Onboard!Step(r) /\ UNCHANGED <<part, vars, update, switches>>)
  /\ WF_all(part = "onboard" /\ (\E r \in Runs : Onboard!Begin(r, FALSE)) /\ UNCHANGED <<part, vars, update, switches>>)

-----------------------------------------------------------------------------
(* What the modules say of them.                                            *)

(* OnboardData: a run that ended well left no piece out.                    *)
HasAllPieces == Onboard!HasAllPieces

(* OnboardData: run again, the command gets the data, unless the saved      *)
(* manifest is torn.                                                        *)
OnboardedUnlessTorn == part = "onboard" => Onboard!OnboardedUnlessTorn

(* SelfUpdate: what is updated is what was compared and found safe.         *)
UpdatesWhatWasChecked == Update!UpdatesWhatWasChecked

(* Switches: what a command said of a flag holds.                           *)
LastWordHolds == Switches!LastWordHolds
=============================================================================
