----------------------------- MODULE LedgerStore -----------------------------
(***************************************************************************)
(* What the ledger of one binary promises to those who come back to it: a   *)
(* document that is read and written whole, at one instant, by processes    *)
(* that each hold a copy of it.                                             *)
(*                                                                          *)
(* "A crash, a cleared context or a new process resumes from the same       *)
(* grounded position" (README.md:191-193, ledger.py:13-17) is Resume: what  *)
(* a process starts from is what was last checkpointed.  Nobody reads half  *)
(* of a checkpoint, and what a process drops before its checkpoint leaves   *)
(* no trace.  Module Ledger is the program (files, reads that fail, crashes *)
(* between two system calls) that is to implement it.                       *)
(***************************************************************************)
EXTENDS LedgerDocuments

CONSTANTS Proc,       \* the processes that hold a Ledger object
          Reliable    \* nobody takes a sound ledger for a corrupt one

\* What a process holds: nothing, or a document.
Nothing == [open |-> FALSE, doc |-> EmptyDoc]
Holding(d) == [open |-> TRUE, doc |-> d]

-----------------------------------------------------------------------------

VARIABLES
  store,  \* the document last checkpointed
  held,   \* what each process holds
  ruins   \* how often the store was ruined from outside

sVars == <<store, held, ruins>>

Init ==
  /\ store = EmptyDoc
  /\ held = [p \in Proc |-> Nothing]
  /\ ruins = 0

Resume(p) ==
  /\ ~held[p].open
  /\ held' = [held EXCEPT ![p] = Holding(store)]
  /\ UNCHANGED <<store, ruins>>

Learn(p) ==
  /\ held[p].open
  /\ \E d \in Doc : /\ Included(held[p].doc, d)
                    /\ held' = [held EXCEPT ![p] = Holding(d)]
  /\ UNCHANGED <<store, ruins>>

Checkpoint(p) ==
  /\ held[p].open
  /\ store' = held[p].doc
  /\ UNCHANGED <<held, ruins>>

Drop(p) ==
  /\ held[p].open
  /\ held' = [held EXCEPT ![p] = Nothing]
  /\ UNCHANGED <<store, ruins>>

Clear(p) ==
  /\ held[p].open
  /\ store' = EmptyDoc
  /\ held' = [held EXCEPT ![p] = Holding(EmptyDoc)]
  /\ UNCHANGED ruins

\* A process that takes a sound ledger for a corrupt one starts over, and
\* puts it aside if it can.
StartOver(p) ==
  /\ ~Reliable
  /\ ~held[p].open
  /\ store' \in {store, EmptyDoc}
  /\ held' = [held EXCEPT ![p] = Holding(EmptyDoc)]
  /\ UNCHANGED ruins

Ruin ==
  /\ store' = EmptyDoc
  /\ ruins' = ruins + 1
  /\ UNCHANGED held

Next ==
  \/ \E p \in Proc : \/ Resume(p) \/ Learn(p) \/ Checkpoint(p)
                     \/ Drop(p) \/ Clear(p) \/ StartOver(p)
  \/ Ruin

Spec == Init /\ [][Next]_sVars

=============================================================================
