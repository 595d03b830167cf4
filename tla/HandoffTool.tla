---------------------------- MODULE HandoffTool ----------------------------
(***************************************************************************)
(* re_checkpoint of the MCP server (reverify/mcp_server.py): several server *)
(* processes, one per agent, save and load the hand-off of one task.  A     *)
(* save reads the file, merges the update and writes the file in place:     *)
(* open(path, "w") empties it, and the text reaches it in pieces, the last  *)
(* when it is closed.  Whoever reads in between finds half a file, and so   *)
(* does everybody after a write that failed or was cut short.               *)
(*                                                                          *)
(* The hand-off is one list here: what is new goes to its end, and all but  *)
(* the newest are dropped (Checkpoint.merge, reverify/rollover.py).         *)
(***************************************************************************)
EXTENDS Naturals, Sequences, Functions

CONSTANTS Server,
          Item,
          Limit,       \* the items a list keeps, 40 in the code
          MaxUpdate,   \* bounds of the model: items in one update,
          MaxSaves,    \* saves,
          MaxFaults    \* and deaths, failed reads and failed writes

ASSUME LimitAssumption == Limit \in Nat \ {0}
ASSUME BoundAssumption == MaxUpdate \in Nat /\ MaxSaves \in Nat /\ MaxFaults \in Nat

VARIABLES
  pc,         \* pc[p]: "idle", "read", "merged" or "open"
  cp,         \* cp[p]: what the call will write
  say,        \* say[p]: the update of the call
  under,      \* under[p]: another call's text landed since p emptied the file
  file,       \* [tag |-> "absent", "whole" or "torn", items |-> ...]
  sure,       \* history: what the file should hold, see Settled
  disturbed,  \* a save overlapped or failed since no call was under way
  saves, faults

call == <<pc, cp, say, under>>
vars == <<call, file, sure, disturbed, saves, faults>>

Absent == [tag |-> "absent", items |-> <<>>]
Torn == [tag |-> "torn", items |-> <<>>]
Whole(items) == [tag |-> "whole", items |-> items]

Updates == UNION {{u \in [1..n -> Item] : IsInjective(u)} : n \in 0..MaxUpdate}

TypeOK ==
  /\ pc \in [Server -> {"idle", "read", "merged", "open"}]
  /\ DOMAIN cp = Server /\ say \in [Server -> Updates]
  /\ under \in [Server -> BOOLEAN]
  /\ file.tag \in {"absent", "torn", "whole"}
  /\ disturbed \in BOOLEAN
  /\ saves \in 0..MaxSaves /\ faults \in 0..MaxFaults

Init ==
  /\ pc = [p \in Server |-> "idle"]
  /\ cp = [p \in Server |-> <<>>] /\ say = [p \in Server |-> <<>>]
  /\ under = [p \in Server |-> FALSE]
  /\ file = Absent /\ sure = Absent
  /\ disturbed = FALSE
  /\ saves = 0 /\ faults = 0

Others(p) == Server \ {p}
Alone(p) == \A q \in Others(p) : pc[q] = "idle"

-----------------------------------------------------------------------------
\* Checkpoint.merge: an item that is there already keeps its place.
Newest(list) == SubSeq(list, IF Len(list) > Limit THEN Len(list) - Limit + 1 ELSE 1, Len(list))
Added(list, update) ==
  Newest(list \o SelectSeq(update, LAMBDA i : i \notin Range(list)))

\* What a save makes of the file; one that does not parse counts as none.
After(f, update) == Added(IF f.tag = "whole" THEN f.items ELSE <<>>, update)

\* re_checkpoint(save) is called with an update.
Call(p, update) ==
  /\ pc[p] = "idle" /\ saves < MaxSaves
  /\ pc' = [pc EXCEPT ![p] = "read"]
  /\ say' = [say EXCEPT ![p] = update]
  /\ saves' = saves + 1
  /\ disturbed' = (disturbed \/ ~ Alone(p))
  /\ UNCHANGED <<cp, under, file, sure, faults>>

Fault == faults < MaxFaults /\ faults' = faults + 1

\* Mutant: the hand-off starts anew with every save.
MergeAnew(p) ==
  /\ pc[p] = "read"
  /\ pc' = [pc EXCEPT ![p] = "merged"]
  /\ cp' = [cp EXCEPT ![p] = After(Absent, say[p])]
  /\ UNCHANGED <<say, under, file, sure, disturbed, saves, faults>>

\* The hand-off is read and the update added to it.
Merge(p) ==
  /\ pc[p] = "read"
  /\ pc' = [pc EXCEPT ![p] = "merged"]
  /\ cp' = [cp EXCEPT ![p] = After(file, say[p])]
  /\ UNCHANGED <<say, under, file, sure, disturbed, saves, faults>>

\* Reading a sound file raises an OSError: the hand-off starts anew.
MergeBlind(p) ==
  /\ pc[p] = "read" /\ file.tag = "whole"
  /\ Fault
  /\ pc' = [pc EXCEPT ![p] = "merged"]
  /\ cp' = [cp EXCEPT ![p] = After(Absent, say[p])]
  /\ disturbed' = TRUE
  /\ UNCHANGED <<say, under, file, sure, saves>>

\* open(path, "w")
Empty(p) ==
  /\ pc[p] = "merged"
  /\ pc' = [pc EXCEPT ![p] = "open"]
  /\ under' = [under EXCEPT ![p] = FALSE]
  /\ file' = Torn
  /\ UNCHANGED <<cp, say, sure, disturbed, saves, faults>>

\* A piece of the text lands on what another call wrote meanwhile.
Flush(p) ==
  /\ pc[p] = "open" /\ file.tag = "whole"
  /\ file' = Torn
  /\ under' = [q \in Server |-> under[q] \/ (q # p /\ pc[q] = "open")]
  /\ UNCHANGED <<pc, cp, say, sure, disturbed, saves, faults>>

-----------------------------------------------------------------------------
(***************************************************************************)
(* The call of p is over.  While calls neither overlap nor fail, each makes *)
(* of the file what After says; once they did, whatever the last of them    *)
(* leaves is what the next calls start from.                                *)
(***************************************************************************)
Settled(p, acknowledged, failed) ==
  LET spoilt == disturbed \/ failed
  IN  /\ disturbed' = (spoilt /\ ~ Alone(p))
      /\ sure' = IF spoilt THEN (IF Alone(p) THEN file' ELSE sure)
                 ELSE IF acknowledged THEN Whole(After(sure, say[p])) ELSE sure

Done(p) ==
  /\ pc' = [pc EXCEPT ![p] = "idle"]
  /\ cp' = [cp EXCEPT ![p] = <<>>] /\ say' = [say EXCEPT ![p] = <<>>]

\* The rest of the text reaches the file, over a longer one if another call's came
\* first, and the call is acknowledged.
Close(p) ==
  /\ pc[p] = "open"
  /\ file' \in {Whole(cp[p])} \union IF under[p] THEN {Torn} ELSE {}
  /\ under' = [q \in Server |-> q # p /\ (under[q] \/ pc[q] = "open")]
  /\ Settled(p, TRUE, FALSE)
  /\ Done(p)
  /\ UNCHANGED <<saves, faults>>

\* The server is killed, or the call raises: before the file is emptied, which
\* leaves it alone; in the middle of its text; or after the last of it.
Fail(p) ==
  /\ pc[p] # "idle"
  /\ Fault
  /\ file' \in IF pc[p] = "open" THEN {file, Torn, Whole(cp[p])} ELSE {file}
  /\ under' = [q \in Server |-> q # p /\ (under[q] \/ (pc[q] = "open" /\ pc[p] = "open"))]
  /\ Settled(p, FALSE, pc[p] = "open")
  /\ Done(p)
  /\ UNCHANGED saves

Next == \E p \in Server : \/ \E update \in Updates : Call(p, update)
                          \/ Merge(p) \/ MergeBlind(p) \/ Empty(p) \/ Flush(p)
                          \/ Close(p) \/ Fail(p)

Spec == Init /\ [][Next]_vars

-----------------------------------------------------------------------------
(***************************************************************************)
(* Between calls the file holds what acknowledged saves, merged one after   *)
(* another, make of it, and a save can only be lost, or the file torn,      *)
(* while saves overlapped, a sound file could not be read, or one of them   *)
(* died or raised over the emptied file.  The harm ends there: the saves    *)
(* that follow build on what was left, on nothing if that is half a file    *)
(* (mcp_server.py:322-333, 364).                                            *)
(***************************************************************************)
LostOnlyWhenDisturbed == (\A p \in Server : pc[p] = "idle") => file = sure

=============================================================================
