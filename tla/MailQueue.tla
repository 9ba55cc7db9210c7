----------------------------- MODULE MailQueue -----------------------------
(***************************************************************************)
(* What a relay with a mail store promises about the mail it is given,     *)
(* whatever its saves, its fetches, its disk and its restarts do.  A       *)
(* request is answered once.  From the moment it is accepted until it is   *)
(* refused or the relay is released from it, an entry is in its mailbox    *)
(* whenever the relay runs and is never given up while it does not.  An    *)
(* entry that left its mailbox may be there again after a restart, as long *)
(* as the relay still holds it; one that is no longer held never returns.  *)
(* MailRelay.tla implements it.                                            *)
(***************************************************************************)
CONSTANT Entries

VARIABLES
  open,     \* whether the relay runs
  answer,   \* answer[e]: how the request to queue e stands
  visible,  \* the entries in their mailboxes, for their recipients to fetch
  held,     \* the entries the relay has at all, in memory or on disk
  released  \* entries collected, expired, or destroyed from outside

vars == <<open, answer, visible, held, released>>

Answers == {"none", "pending", "acked", "refused"}

Init ==
  /\ open = FALSE /\ answer = [e \in Entries |-> "none"]
  /\ visible = {} /\ held = {} /\ released = {}

(* What nobody may lose sight of.                                          *)
Owed == {e \in Entries : answer[e] \in {"pending", "acked"}} \ released

(* Besides what a step adds, mail that is not owed may leave the mailboxes *)
(* or be purged with any of them.                                          *)
Keeps(added) ==
  /\ added \subseteq visible' /\ visible' \subseteq visible \union added
  /\ visible' \subseteq held' /\ held' \subseteq held \union added
  /\ Owed' \subseteq IF open THEN visible' ELSE held'

Accept(e) ==
  /\ open /\ answer[e] = "none"
  /\ answer' = [answer EXCEPT ![e] = "pending"]
  /\ Keeps({e})
  /\ UNCHANGED <<open, released>>

(* At once, or when the save it waits for takes too long.                  *)
Refuse(e) ==
  /\ open /\ answer[e] \in {"none", "pending"}
  /\ answer' = [answer EXCEPT ![e] = "refused"]
  /\ Keeps({})
  /\ UNCHANGED <<open, released>>

Acknowledge(e) ==
  /\ open /\ answer[e] = "pending"
  /\ answer' = [answer EXCEPT ![e] = "acked"]
  /\ UNCHANGED <<open, visible, held, released>>

(* Recipients collect, time passes, disks lose data.                       *)
Release(es) ==
  /\ released' = released \union es
  /\ Keeps({})
  /\ UNCHANGED <<open, answer>>

(* The process ends, and with it every request still pending.              *)
Close ==
  /\ open /\ open' = FALSE
  /\ answer' = [e \in Entries |-> IF answer[e] = "pending" THEN "refused" ELSE answer[e]]
  /\ visible' = {}
  /\ held' \subseteq held /\ Owed' \subseteq held'
  /\ UNCHANGED released

Reopen ==
  /\ ~open /\ open' = TRUE
  /\ visible' \subseteq held /\ Owed \subseteq visible'
  /\ held' = visible'
  /\ UNCHANGED <<answer, released>>

Next ==
  \/ \E e \in Entries : Accept(e) \/ Refuse(e) \/ Acknowledge(e)
  \/ \E es \in SUBSET Entries : Release(es)
  \/ Close \/ Reopen

Spec == Init /\ [][Next]_vars
=============================================================================
