---------------------------- MODULE MCMailRelay ----------------------------
(***************************************************************************)
(* Instances of MailRelay for TLC: one mailbox shared by two accounts, as  *)
(* a conversation's two sides share it.                                    *)
(***************************************************************************)
EXTENDS MailRelay, TLC

CONSTANTS e1, e2, e3, alice, bob, box

\* Every entry is Alice's: entries are interchangeable.
MCOneWriter == [e \in Entries |-> alice]
MCBoxOf == [e \in Entries |-> box]

\* What the future can depend on: only a waiting write's flush_seq is read
\* again, and only a writer's noted epoch.
View == <<up, mailboxes, saved, memory_bytes, flushVars, fetch, epochVars,
          stopping, diskVars, write, served, collected, connected, flagged, envVars,
          [e \in Entries |-> IF Waiting(e) THEN flush_seq[e] ELSE 0],
          [e \in Entries |-> noted[WriterOf[e]]]>>

Interchangeable == Permutations(Entries) \union Permutations(Handlers)
=============================================================================
