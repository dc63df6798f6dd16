------------------------------ MODULE OnboardData ------------------------------
(***************************************************************************)
(* `sp onboard-data`: the pieces of a deal, downloaded with aria2c.        *)
(*                                                                         *)
(* The command fetches the manifest, checks it against the deal, asks the  *)
(* adapter row by row which pieces are accepted already, saves the         *)
(* manifest and lets aria2c download the rest.  What is on the SP's disk   *)
(* is all that outlives a run: files that are whole, files that a killed   *)
(* download left, and the saved manifest.  Runs are killed and started     *)
(* again, also in two terminals, while the SP places pieces.               *)
(***************************************************************************)
EXTENDS Naturals

CONSTANTS
  Runs,
  Pieces,     \* the pieces of the deal
  Good,       \* manifests that commit to them (they may differ elsewhere)
  Bad,        \* manifests that do not
  Retries,    \* how often the manifest is asked for again: 10
  MaxFaults   \* bound on disturbances

VARIABLES
  server,     \* the manifest at the deal's URL
  open,       \* the deal is ACCEPTED or ACTIVE
  accepted,   \* pieces the adapter has accepted
  disk,       \* piece -> its file: none, part or whole
  saved,      \* manifest_<deal>.json: none, torn, or a manifest
  run,        \* what each run knows
  told,       \* a run has ended well
  faults

world == <<server, open, accepted>>
vars == <<world, disk, saved, run, told, faults>>

Manifests == Good \union Bad
Idle == [pc |-> "idle", force |-> FALSE, retries |-> 0, manifest |-> "none",
         unread |-> {}, done |-> {}, queue |-> {}]

Init ==
  /\ server \in Good
  /\ open = TRUE
  /\ accepted = {}
  /\ disk = [p \in Pieces |-> "none"]
  /\ saved = "none"
  /\ run = [r \in Runs |-> Idle]
  /\ told = FALSE
  /\ faults = MaxFaults

Fault == faults > 0 /\ faults' = faults - 1
At(r, step) == run[r].pc = step
Goto(r, step) == run' = [run EXCEPT ![r].pc = step]

-----------------------------------------------------------------------------
(* The steps of a run.                                                      *)

Begin(r, force) ==
  /\ At(r, "idle")
  /\ run' = [run EXCEPT ![r] = [Idle EXCEPT !.pc = "fetch", !.force = force, !.retries = Retries]]
  /\ UNCHANGED <<world, disk, saved, told, faults>>

(* fetch_manifest and _validate_deal: state, commitment and size            *)
Fetch(r) ==
  /\ At(r, "fetch")
  /\ IF open /\ server \in Good
       THEN run' = [run EXCEPT ![r].pc = "rows", ![r].manifest = server, ![r].unread = Pieces]
       ELSE run' = [run EXCEPT ![r] = Idle]
  /\ UNCHANGED <<world, disk, saved, told, faults>>

(* RequestException: it is tried again while there are retries left.        *)
FetchFails(r) ==
  /\ Fault
  /\ At(r, "fetch")
  /\ run' = IF run[r].retries = 0 THEN [run EXCEPT ![r] = Idle]
            ELSE [run EXCEPT ![r].retries = @ - 1]
  /\ UNCHANGED <<world, disk, saved, told>>

(* is_piece_accepted, a call for each row                                   *)
ReadRow(r, p) ==
  /\ At(r, "rows") /\ p \in run[r].unread
  /\ run' = [run EXCEPT ![r].unread = @ \ {p},
                        ![r].done = IF p \in accepted THEN @ \union {p} ELSE @]
  /\ UNCHANGED <<world, disk, saved, told, faults>>

EndOfRows(r) ==
  /\ At(r, "rows") /\ run[r].unread = {}
  /\ IF run[r].done = Pieces /\ ~run[r].force
       THEN run' = [run EXCEPT ![r] = Idle] /\ told' = TRUE
       ELSE Goto(r, "save") /\ UNCHANGED told
  /\ UNCHANGED <<world, disk, saved, faults>>

(* Mutated form: a manifest that is there is never overwritten.             *)
OnlyNew(r) == saved = "none"

(* _write_manifest_file: an existing manifest is parsed and, if different,  *)
(* overwritten on confirmation.  What is not JSON raises an error.          *)
Overwritable(r) == saved # "torn"

CheckSaved(r) ==
  /\ At(r, "save")
  /\ IF Overwritable(r) THEN Goto(r, "open") ELSE run' = [run EXCEPT ![r] = Idle]
  /\ UNCHANGED <<world, disk, saved, told, faults>>

OpenFile(r) ==
  /\ At(r, "open")
  /\ saved' = "torn"
  /\ Goto(r, "writing")
  /\ UNCHANGED <<world, disk, told, faults>>

(* What aria2c is asked for, once that is confirmed.                        *)
Queue(r) == IF run[r].force THEN Pieces ELSE Pieces \ run[r].done

(* Two runs that have both opened the file may leave a mixture.             *)
WriteFile(r) ==
  /\ At(r, "writing")
  /\ \/ saved' = run[r].manifest
     \/ saved \notin {"torn", run[r].manifest} /\ saved' = "torn"
  /\ run' = [run EXCEPT ![r].pc = "aria2c", ![r].queue = Queue(r)]
  /\ UNCHANGED <<world, disk, told, faults>>

(* Mutated form: a file that is there is taken for whole.                   *)
Exists(p) == disk[p] # "none"

(* --continue=true: what a killed download left is continued.               *)
Downloaded(p) == disk[p] = "whole"

Download(r, p) ==
  /\ At(r, "aria2c") /\ p \in run[r].queue
  /\ IF Downloaded(p)
       THEN run' = [run EXCEPT ![r].queue = @ \ {p}] /\ UNCHANGED disk
       ELSE disk' = [disk EXCEPT ![p] = IF @ = "none" THEN "part" ELSE "whole"] /\ UNCHANGED run
  /\ UNCHANGED <<world, saved, told, faults>>

Finish(r) ==
  /\ At(r, "aria2c") /\ run[r].queue = {}
  /\ run' = [run EXCEPT ![r] = Idle]
  /\ told' = TRUE
  /\ UNCHANGED <<world, disk, saved, faults>>

Step(r) ==
  \/ Fetch(r) \/ EndOfRows(r) \/ CheckSaved(r) \/ OpenFile(r) \/ WriteFile(r) \/ Finish(r)
  \/ \E p \in Pieces : ReadRow(r, p) \/ Download(r, p)

(* Ctrl-C, a declined prompt, aria2c with an exit code: RuntimeError.       *)
Crash(r) ==
  /\ Fault
  /\ ~At(r, "idle")
  /\ run' = [run EXCEPT ![r] = Idle]
  /\ UNCHANGED <<world, disk, saved, told>>

-----------------------------------------------------------------------------
(* The SP seals what it has, and may delete what is placed; the manifest at *)
(* the URL changes; the deal ends.                                          *)

Place(p) ==
  /\ disk[p] = "whole" /\ p \notin accepted
  /\ accepted' = accepted \union {p}
  /\ UNCHANGED <<server, open, disk, saved, run, told, faults>>

Delete(p) ==
  /\ Fault
  /\ p \in accepted /\ disk[p] = "whole"
  /\ disk' = [disk EXCEPT ![p] = "none"]
  /\ UNCHANGED <<world, saved, run, told>>

Publish(m) ==
  /\ Fault
  /\ server' = m
  /\ UNCHANGED <<open, accepted, disk, saved, run, told>>

EndDeal ==
  /\ Fault
  /\ open' = FALSE
  /\ UNCHANGED <<server, accepted, disk, saved, run, told>>

Next ==
  \/ \E r \in Runs : Step(r) \/ FetchFails(r) \/ Crash(r)
  \/ \E r \in Runs, force \in BOOLEAN : Begin(r, force)
  \/ \E p \in Pieces : Place(p) \/ Delete(p)
  \/ \E m \in Manifests : Publish(m)
  \/ EndDeal

(* A run goes on, and the SP runs the command again.                        *)
Fairness ==
  /\ \A r \in Runs : WF_vars(Step(r))
  /\ WF_vars(\E r \in Runs : Begin(r, FALSE))

Spec == Init /\ [][Next]_vars
FairSpec == Spec /\ Fairness

-----------------------------------------------------------------------------
(* Properties.                                                              *)

(* When a run has ended well the SP has every piece of the deal, on disk or *)
(* placed, whatever earlier runs, or one in another terminal, left behind.  *)
HasAllPieces == told => \A p \in Pieces : p \in accepted \/ disk[p] = "whole"

(* Running the command again gets the data, as long as the deal and its URL *)
(* stay good: except after a run was killed between opening and writing the *)
(* manifest, or two wrote different ones at once; what that leaves behind   *)
(* ends every later run.                                                    *)
OnboardedUnlessTorn ==
  <>[](open /\ server \in Good) => <>told \/ <>[](saved = "torn")
=============================================================================
