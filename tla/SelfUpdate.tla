------------------------------- MODULE SelfUpdate -------------------------------
(***************************************************************************)
(* The self update that every command begins with.                         *)
(*                                                                         *)
(* The tool fetches the branch its checkout tracks, compares, looks whether*)
(* an update is safe, asks, and merges.  The checkout is the user's own:   *)
(* in another terminal it is edited, committed to and switched to another  *)
(* branch, and a second run of the tool fetches, while the first compares  *)
(* or waits for the answer.  git itself is modelled from how it is called: *)
(* the commits of the remote are a line, of which each of its branches, and*)
(* each local one, has a first part; a local branch may then have commits  *)
(* of its own.                                                             *)
(***************************************************************************)
EXTENDS Naturals

CONSTANTS
  Tracking,   \* local branch -> branch of the remote that it tracks
  Released,   \* main and master
  MaxCommits, \* bound on the commits of the remote
  MaxLocal    \* bound on the commits of the user

Detached == "detached"
Local == DOMAIN Tracking
Remote == {Tracking[h] : h \in Local}

VARIABLES
  upstream,   \* branch of the remote -> its commits
  ref,        \* branch of the remote -> those that the last fetch has seen: remote/branch
  has,        \* branch, or the detached HEAD -> commits of the remote it has
  own,        \* branch, or the detached HEAD -> commits of its own
  head,       \* what is checked out
  dirty,      \* local changes, untracked files included
  call        \* local variables of the run

world == <<upstream, ref, has, own, head, dirty>>
vars == <<world, call>>

(* call.moved is not in the code: the user changed the branch since it was  *)
(* found safe.                                                              *)

Heads == Local \union {Detached}
Name == Local \union Remote \union {Detached}
Call == [pc : {"none", "fetch", "local", "safe", "prompt", "merge", "command", "exit"},
         manual : BOOLEAN, branch : Name, sha : Nat, ahead : BOOLEAN, moved : BOOLEAN]
NoCall == [pc |-> "none", manual |-> FALSE, branch |-> Detached, sha |-> 0, ahead |-> FALSE, moved |-> FALSE]
Command == [NoCall EXCEPT !.pc = "command"]
Exit == [NoCall EXCEPT !.pc = "exit"]

At(step) == call.pc = step

Init ==
  /\ upstream = [b \in Remote |-> 1] /\ ref = [b \in Remote |-> 0]
  /\ has = [h \in Heads |-> 0]
  /\ own = [h \in Heads |-> 0]
  /\ head \in Heads
  /\ dirty = FALSE
  /\ call = NoCall

-----------------------------------------------------------------------------
(* A run: each step either goes on or leaves the rest to the command.       *)

(* check_for_update up to the fetch: SKIP_SELF_UPDATE, the tracking branch, *)
(* and, unless the user asked for the update, its name.                     *)
Begin(manual, skip) ==
  LET branch == IF head = Detached THEN Detached ELSE Tracking[head]
      passed == branch = Detached \/ (~manual /\ (skip \/ branch \notin Released))
  IN /\ call.pc \in {"none", "command", "exit"}
     /\ call' = IF passed THEN Command
                ELSE [NoCall EXCEPT !.pc = "fetch", !.manual = manual, !.branch = branch]
     /\ UNCHANGED world

(* A fetch that fails, or takes more than five seconds, is passed over.     *)
Fetch ==
  /\ At("fetch")
  /\ \/ /\ ref' = [ref EXCEPT ![call.branch] = upstream[call.branch]]
        /\ call' = [call EXCEPT !.pc = "local", !.sha = upstream[call.branch]]
     \/ UNCHANGED ref /\ call' = Command
  /\ UNCHANGED <<upstream, has, own, head, dirty>>

(* repo.head.commit, read after the fetch, and _commit_counts               *)
Count ==
  /\ At("local")
  /\ call' = IF has[head] < call.sha THEN [call EXCEPT !.pc = "safe", !.ahead = own[head] > 0]
             ELSE Command
  /\ UNCHANGED world

(* Mutated form: the branch is taken to be the one that was fetched.        *)
SafeIfClean == call.ahead \/ dirty

(* _update_unsafe_reason: the count of the last step, and the checkout now  *)
UnsafeReason == call.ahead \/ dirty \/ head # call.branch

CheckSafe ==
  /\ At("safe")
  /\ call' = IF UnsafeReason THEN Command ELSE [call EXCEPT !.pc = "prompt"]
  /\ UNCHANGED world

Prompt ==
  /\ At("prompt")
  /\ \E yes \in BOOLEAN : call' = IF yes THEN [call EXCEPT !.pc = "merge"] ELSE Command
  /\ UNCHANGED world

(* --ff-only: nothing of its own, or nothing to merge.  Local changes stop  *)
(* git when the merge touches the same files.                               *)
FastForward == own[head] = 0 \/ ref[call.branch] <= has[head]

(* The merge is of what the last fetch of anyone has seen, into what is     *)
(* checked out by now.  sys.exit(0) either way.                             *)
Merge ==
  /\ At("merge")
  /\ \/ FastForward /\ has' = [has EXCEPT ![head] = IF ref[call.branch] > @ THEN ref[call.branch] ELSE @]
     \/ (dirty \/ ~FastForward) /\ UNCHANGED has
  /\ call' = Exit
  /\ UNCHANGED <<upstream, ref, own, head, dirty>>

-----------------------------------------------------------------------------
(* The user, the remote, and a second run of the tool.                      *)

Push(b) ==
  /\ upstream[b] < MaxCommits
  /\ upstream' = [upstream EXCEPT ![b] = @ + 1]
  /\ UNCHANGED <<ref, has, own, head, dirty, call>>

OtherFetch(b) ==
  /\ ref' = [ref EXCEPT ![b] = upstream[b]]
  /\ UNCHANGED <<upstream, has, own, head, dirty, call>>

Edit ==
  /\ dirty' = ~dirty
  /\ UNCHANGED <<upstream, ref, has, own, head, call>>

Commit ==
  /\ dirty /\ own[head] < MaxLocal
  /\ own' = [own EXCEPT ![head] = @ + 1]
  /\ dirty' = FALSE
  /\ UNCHANGED <<upstream, ref, has, head, call>>

(* A detached HEAD is made at the commit that was checked out.              *)
Carried(h, commits) ==
  [commits EXCEPT ![Detached] = IF h = Detached THEN commits[head] ELSE 0]

Switch(h) ==
  /\ head' = h
  /\ has' = Carried(h, has) /\ own' = Carried(h, own)
  /\ call' = [call EXCEPT !.moved = At("prompt") \/ At("merge")]
  /\ UNCHANGED <<upstream, ref, dirty>>

Next ==
  \/ \E manual, skip \in BOOLEAN : Begin(manual, skip)
  \/ Fetch \/ Count \/ CheckSafe \/ Prompt \/ Merge
  \/ \E b \in Remote : Push(b) \/ OtherFetch(b)
  \/ Edit \/ Commit
  \/ \E h \in Heads \ {head} : Switch(h)

Spec == Init /\ [][Next]_vars

-----------------------------------------------------------------------------
(* Properties.                                                              *)

(* An update is pulled into the branch that was compared and found safe,    *)
(* with no commits of its own, and without being asked for only into main:  *)
(* although the branch, the commits and the changes are read one after the  *)
(* other while the user works, unless the user changes the branch while the *)
(* tool waits for the answer.                                               *)
UpdatesWhatWasChecked ==
  [][At("merge") /\ call'.pc = "exit" /\ has' # has
     => /\ own[head] = 0
        /\ ~call.moved => head = call.branch /\ (call.manual \/ head \in Released)]_vars
=============================================================================
